---------------------------- MODULE Spec2Model ----------------------------
(***************************************************************************)
(* A model of the mooring data generator (mooring_data_generator/builder.py *)
(* and models.py): the selection pools, the Hook / Bollard / Radar / Berth  *)
(* / Port workers with their update() cascade, and the export of the        *)
(* pydantic record tree; the transport loops of file_worker.py and          *)
(* http_worker.py; and the aggregating receiver (httpreceiver.py,           *)
(* parsejson.py, hookclass.py).                                             *)
(*                                                                          *)
(* Conventions.  Python's None is the empty sequence and a present value x  *)
(* is <<x>>, so that optional fields are always comparable.  Names are      *)
(* strings built the way the f-strings build them.  A sample of             *)
(* random.gauss is an integer number of halves (3 stands for 1.5), so that  *)
(* ceil() and abs() have something to do; radar distances keep that unit.   *)
(* The calls to the random module made by one operation are answered from  *)
(* an environment record that the action draws from bounded sets.           *)
(***************************************************************************)
EXTENDS Integers, Sequences, FiniteSets, TLC

VARIABLES
    op,            \* the operation that produced the current state
    bollard_list,  \* line_name_generator: its argument ...
    response,      \* ... and the list it returned
    hook,          \* a HookWorker built on its own (None before construction)
    hook_args,     \* the arguments that HookWorker was constructed with
    pools,         \* the five module-level selection pools
    handed,        \* per pool, how often each name has been handed out
    port,          \* the PortWorker of the process (None before construction)
    exported,      \* the outcome of the last read of .data (port, hook or radar)
    radar,         \* a RadarWorker built on its own (None before construction)
    radar_args,    \* the arguments that RadarWorker was constructed with
    loop,          \* the transport loop of file_worker.run / http_worker.run
    monitor,       \* httpreceiver.monitor.hooks: the entries in insertion order
    received,      \* every record folded into the monitor, in arrival order
    reply          \* what the last do_POST answered

lineVars == <<bollard_list, response>>
hookVars == <<hook, hook_args>>
poolVars == <<pools, handed>>
portVars == <<port, exported>>
radarVars == <<radar, radar_args>>
loopVars == <<loop>>
monitorVars == <<monitor, received, reply>>
vars == <<op, lineVars, hookVars, poolVars, portVars, radarVars, loopVars, monitorVars>>

None == <<>>
Some(x) == <<x>>

Abs(x) == IF x < 0 THEN -x ELSE x

\* Rest applied to the value v of one step: the value is computed once and
\* handed on, as a Python assignment does.
Bind(v, Rest(_)) == Rest(v)

-----------------------------------------------------------------------------
(* line_name_generator *)

\* A variant of LineOf whose first comparison is <= 0.25.
LineOf_inclusive(bollard_number, n) ==
    IF 100 * bollard_number <= 25 * n THEN "HEAD"
    ELSE IF 83 * n < 100 * bollard_number THEN "STERN"
    ELSE IF 40 * n < 100 * bollard_number /\ 100 * bollard_number < 65 * n
         THEN "BREAST"
    ELSE "SPRING"

\* A variant with BREAST and SPRING exchanged.
LineOf_breast_outside(bollard_number, n) ==
    IF 100 * bollard_number < 25 * n THEN "HEAD"
    ELSE IF 83 * n < 100 * bollard_number THEN "STERN"
    ELSE IF 40 * n < 100 * bollard_number /\ 100 * bollard_number < 65 * n
         THEN "SPRING"
    ELSE "BREAST"

\* bollard_number / len(bollard_list) compared with the decimal literals; all
\* four comparisons are between rationals with small denominators, so they
\* are decided exactly by cross-multiplication.
LineOf(bollard_number, n) ==
    IF 100 * bollard_number < 25 * n THEN "HEAD"
    ELSE IF 83 * n < 100 * bollard_number THEN "STERN"
    ELSE IF 40 * n < 100 * bollard_number /\ 100 * bollard_number < 65 * n
         THEN "BREAST"
    ELSE "SPRING"

line_name_generator(list) ==
    [i \in 1..Len(list) |-> LineOf(list[i], Len(list))]

\* list(range(1, bollard_count + 1)): empty when bollard_count < 1
RangeFromOne(count) == [i \in 1..count |-> i]

-----------------------------------------------------------------------------
(* Formatting *)

Digit == <<"0", "1", "2", "3", "4", "5", "6", "7", "8", "9">>

\* str(n) of a non-negative int
RECURSIVE StrNat(_)
StrNat(n) == IF n < 10 THEN Digit[n + 1] ELSE StrNat(n \div 10) \o Digit[(n % 10) + 1]

\* f"{n}"
Str(n) == IF n < 0 THEN "-" \o StrNat(-n) ELSE StrNat(n)

\* f"{n:0{width}d}" for n >= 0: zero-padded on the left to at least width
RECURSIVE ZeroPad(_, _)
ZeroPad(s, width) == IF Len(s) >= width THEN s ELSE ZeroPad("0" \o s, width)

-----------------------------------------------------------------------------
(* The random module, as seen by one operation.                             *)
(*   g, gi  the samples random.gauss returns, cyclically, and the number of *)
(*          calls made so far;                                              *)
(*   c, ci  the same for random.choice: each entry selects the position of  *)
(*          the chosen element;                                             *)
(*   n      what random.randint returns;                                    *)
(*   k, ki  the same for random.choices: each entry selects the position in *)
(*          the population of one drawn value.                              *)
(* pools are the module globals the operation reads and mutates, handed the *)
(* record of what the pools returned, and raised is the exception that is   *)
(* propagating, if any; log lists the workers whose update() was called.    *)

Env(g, c, n, k, p, h) ==
    [g |-> g, gi |-> 0, c |-> c, ci |-> 0, n |-> n, k |-> k, ki |-> 0,
     pools |-> p, handed |-> h, raised |-> None, log |-> <<>>]

\* update() was called on the worker of this name: the calls are noted in order
Called(env, name) == [env EXCEPT !.log = Append(@, name)]

Cyclic(seq, calls) == seq[(calls % Len(seq)) + 1]

\* the element of a population at position pick, counted cyclically
Pick(seq, pick) == seq[((pick - 1) % Len(seq)) + 1]

\* random.gauss(mu, sigma)
gauss(env) == [env |-> [env EXCEPT !.gi = @ + 1], val |-> Cyclic(env.g, env.gi)]

\* ceil(x) of a sample in halves
ceil(x) == -((-x) \div 2)

-----------------------------------------------------------------------------
(* HookWorker *)

HookStatus == {Some(TRUE), Some(FALSE), None}
Lines == {"BREAST", "HEAD", "SPRING", "STERN"}

\* A variant of HookWorker.update that takes ceil(abs(sample)).
HookWorker_update_ceil_of_abs(env, self) ==
    IF self.active /\ ~self.fault
    THEN Bind(gauss(Called(env, self.name)), LAMBDA r :
            [env |-> r.env, obj |-> [self EXCEPT !.tension = Some(ceil(Abs(r.val)))]])
    ELSE [env |-> Called(env, self.name), obj |-> self]

\* A variant of HookWorker.update whose guard is "active or fault".
HookWorker_update_or_fault(env, self) ==
    IF self.active \/ self.fault
    THEN Bind(gauss(Called(env, self.name)), LAMBDA r :
            [env |-> r.env, obj |-> [self EXCEPT !.tension = Some(Abs(ceil(r.val)))]])
    ELSE [env |-> Called(env, self.name), obj |-> self]

HookWorker_update(env, self) ==
    IF self.active /\ ~self.fault
    THEN Bind(gauss(Called(env, self.name)), LAMBDA r :
            [env |-> r.env, obj |-> [self EXCEPT !.tension = Some(Abs(ceil(r.val)))]])
    ELSE [env |-> Called(env, self.name), obj |-> self]

\* A variant of HookWorker.__init__ that stores attached_line whether or not
\* the hook is active.
HookWorker_init_always_attached(env, hook_number, hook_status, attached_line) ==
    Bind([name |-> "Hook " \o Str(hook_number),
          active |-> (hook_status = Some(TRUE)),
          fault |-> (hook_status = None),
          attached_line |-> Some(attached_line),
          tension |-> None],
         LAMBDA self :
            IF self.active THEN HookWorker_update(env, self)
            ELSE [env |-> env, obj |-> self])

\* A variant of HookWorker.__init__ in which a hook with status None stays
\* active.
HookWorker_init_fault_active(env, hook_number, hook_status, attached_line) ==
    Bind([name |-> "Hook " \o Str(hook_number),
          active |-> (hook_status # Some(FALSE)),
          fault |-> (hook_status = None),
          attached_line |-> None,
          tension |-> None],
         LAMBDA self :
            IF self.active
            THEN HookWorker_update(env, [self EXCEPT !.attached_line = Some(attached_line)])
            ELSE [env |-> env, obj |-> self])

HookWorker_init(env, hook_number, hook_status, attached_line) ==
    Bind([name |-> "Hook " \o Str(hook_number),
          active |-> (hook_status = Some(TRUE)),
          fault |-> (hook_status = None),
          attached_line |-> None,
          tension |-> None],
         LAMBDA self :
            IF self.active
            THEN HookWorker_update(env, [self EXCEPT !.attached_line = Some(attached_line)])
            ELSE [env |-> env, obj |-> self])

-----------------------------------------------------------------------------
(* models.py: the pydantic records.  Constructing a record validates it: the *)
(* outcome is the record, or a ValidationError naming the model and the      *)
(* fields that failed, in declaration order.                                 *)

Upper == <<"A", "B", "C", "D", "E", "F", "G", "H", "I", "J", "K", "L", "M",
           "N", "O", "P", "Q", "R", "S", "T", "U", "V", "W", "X", "Y", "Z">>

D09 == 1..10   \* positions of "0".."9" in Digit
D19 == 2..10   \* positions of "1".."9" in Digit

\* r"^Hook [1-9][0-9]?$"
HookNamePattern ==
    {"Hook " \o Digit[a] : a \in D19}
      \cup {"Hook " \o Digit[a] \o Digit[b] : a \in D19, b \in D09}

\* r"^B[A-Z]RD[0-9]$"
RadarNamePattern == {"B" \o Upper[l] \o "RD" \o Digit[a] : l \in 1..26, a \in D09}

\* r"^BOL[0-9]{3}$"
BollardNamePattern ==
    {"BOL" \o Digit[a] \o Digit[b] \o Digit[c] : a \in D09, b \in D09, c \in D09}

\* r"^Berth [A-Z]$"
BerthNamePattern == {"Berth " \o Upper[l] : l \in 1..26}

\* r"^[0-9]{4}$"
VesselIdPattern ==
    {Digit[a] \o Digit[b] \o Digit[c] \o Digit[d] :
        a \in D09, b \in D09, c \in D09, d \in D09}

Ok(obj) == [raised |-> None, data |-> Some(obj)]
Raise(exc) == [raised |-> Some(exc), data |-> None]
ValidationError(model, fields) == [type |-> "ValidationError", model |-> model, loc |-> fields]

\* the fields of flds whose check failed, in order
Failed(flds) == SelectSeq(flds, LAMBDA f : ~f[2])
FieldNames(flds) == [i \in 1..Len(flds) |-> flds[i][1]]

Validate(model, obj, flds) ==
    IF Failed(flds) = <<>> THEN Ok(obj)
    ELSE Raise(ValidationError(model, FieldNames(Failed(flds))))

\* Annotated[int, Field(ge=0, lt=99)] | None
TensionOk(tension) == tension = None \/ (0 <= tension[1] /\ tension[1] < 99)

\* Annotated[float, Field(ge=0, lt=100)] | None, the value in halves
ShipDistanceOk(d) == d = None \/ (0 <= d[1] /\ d[1] < 100 * 2)

\* Annotated[float, Field(gt=-100, lt=100)] | None, the value in halves
DistanceChangeOk(d) == d = None \/ (-100 * 2 < d[1] /\ d[1] < 100 * 2)

\* A variant of HookData that brings a tension of 99 or more down to 98.
HookData_clamping(name, tension, faulted, attached_line) ==
    Validate("HookData",
             [name |-> name,
              tension |-> IF tension # None /\ tension[1] >= 99 THEN Some(98) ELSE tension,
              faulted |-> faulted, attached_line |-> attached_line],
             << <<"name", name \in HookNamePattern>>,
                <<"attached_line", attached_line = None \/ attached_line[1] \in Lines>> >>)

HookData(name, tension, faulted, attached_line) ==
    Validate("HookData",
             [name |-> name, tension |-> tension, faulted |-> faulted,
              attached_line |-> attached_line],
             << <<"name", name \in HookNamePattern>>,
                <<"tension", TensionOk(tension)>>,
                <<"attached_line", attached_line = None \/ attached_line[1] \in Lines>> >>)

RadarData(name, ship_distance, distance_change, distance_status) ==
    Validate("RadarData",
             [name |-> name, ship_distance |-> ship_distance,
              distance_change |-> distance_change, distance_status |-> distance_status],
             << <<"name", name \in RadarNamePattern>>,
                <<"ship_distance", ShipDistanceOk(ship_distance)>>,
                <<"distance_change", DistanceChangeOk(distance_change)>>,
                <<"distance_status", distance_status \in {"INACTIVE", "ACTIVE"}>> >>)

BollardData(name, hooks) ==
    Validate("BollardData", [name |-> name, hooks |-> hooks],
             << <<"name", name \in BollardNamePattern>> >>)

ShipData(name, vessel_id) ==
    Validate("ShipData", [name |-> name, vessel_id |-> vessel_id],
             << <<"vessel_id", vessel_id \in VesselIdPattern>> >>)

BerthData(name, bollard_count, hook_count, ship, radars, bollards) ==
    Validate("BerthData",
             [name |-> name, bollard_count |-> bollard_count, hook_count |-> hook_count,
              ship |-> ship, radars |-> radars, bollards |-> bollards],
             << <<"name", name \in BerthNamePattern>>,
                <<"bollard_count", 0 < bollard_count /\ bollard_count < 40>>,
                <<"hook_count", 0 < hook_count /\ hook_count < 60>> >>)

PortData(name, berths) == Ok([name |-> name, berths |-> berths])

\* the position of the first result that raised, 0 when none did
FirstRaised(results) ==
    IF \A i \in 1..Len(results) : results[i].raised = None THEN 0
    ELSE CHOOSE i \in 1..Len(results) :
            results[i].raised # None /\ \A j \in 1..(i - 1) : results[j].raised = None

\* [x.data for x in xs]: the records, or the first exception raised
DataList(results) ==
    Bind(FirstRaised(results), LAMBDA bad :
        IF bad = 0
        THEN Ok([i \in 1..Len(results) |-> results[i].data[1]])
        ELSE results[bad])

HookWorker_data(self) ==
    HookData(self.name, self.tension, self.fault, self.attached_line)

-----------------------------------------------------------------------------
(* The selection pools *)

PortNames == <<"Port Hedland", "Dampier", "Fremantle", "Kwinana", "Bunbury", "Esperance",
               "Albany", "Geraldton", "Broome", "Wyndham", "Derby", "Carnarvon">>
Superlatives == <<"Majestic", "Sovereign", "Resolute", "Valiant", "Vigilant", "Dauntless",
                  "Liberty", "Enduring", "Gallant", "Noble", "Guardian", "Intrepid">>
BaseNames == <<"Amelia", "Charlotte", "Olivia", "Sophia", "Emily", "Grace",
               "Hana", "Mei", "Yuna", "Sakura", "Aiko", "Keiko">>

Prefix(seq, k) == SubSeq(seq, 1, IF k < Len(seq) THEN k ELSE Len(seq))

\* The module globals with the first p port names, s superlatives, n base
\* names, b bollard names and i ship ids of the source's lists.
Pools(p, s, n, b, i) ==
    [WA_PORT_NAMES |-> Prefix(PortNames, p),
     NAUTICAL_SUPERLATIVES |-> Prefix(Superlatives, s),
     NAUTICAL_BASE_NAMES |-> Prefix(BaseNames, n),
     BOLLARD_NAMES |-> [x \in 1..b |-> "BOL" \o ZeroPad(Str(x), 3)],
     SHIP_IDS |-> [x \in 1..i |-> ZeroPad(Str(x), 4)]]

PoolNames == {"WA_PORT_NAMES", "NAUTICAL_SUPERLATIVES", "NAUTICAL_BASE_NAMES",
              "BOLLARD_NAMES", "SHIP_IDS"}

NothingHanded == [k \in PoolNames |-> <<>>]

\* the tally with one more x
Tally(tally, x) ==
    IF x \in DOMAIN tally THEN [tally EXCEPT ![x] = @ + 1] ELSE tally @@ (x :> 1)

\* list.remove(x): drops the first element equal to x
Remove(seq, x) ==
    LET i == CHOOSE i \in 1..Len(seq) : seq[i] = x /\ \A j \in 1..(i - 1) : seq[j] # x
    IN SubSeq(seq, 1, i - 1) \o SubSeq(seq, i + 1, Len(seq))

\* random.choice(seq): IndexError on an empty sequence
choice(env, seq) ==
    IF seq = <<>>
    THEN [env |-> [env EXCEPT !.raised = Some("IndexError")], val |-> ""]
    ELSE [env |-> [env EXCEPT !.ci = @ + 1],
          val |-> Pick(seq, Cyclic(env.c, env.ci))]

\* A variant of random_single_use_choice that leaves the element in the list.
random_choice_kept(env, pool) ==
    Bind(choice(env, env.pools[pool]), LAMBDA r :
        IF r.env.raised # None THEN r
        ELSE [env |-> [r.env EXCEPT !.handed[pool] = Tally(@, r.val)], val |-> r.val])

\* random_single_use_choice on the module global named pool
random_single_use_choice(env, pool) ==
    Bind(choice(env, env.pools[pool]), LAMBDA r :
        IF r.env.raised # None THEN r
        ELSE [env |-> [r.env EXCEPT !.pools[pool] = Remove(@, r.val),
                                    !.handed[pool] = Tally(@, r.val)],
              val |-> r.val])

\* A variant of random_ship_name that draws the base name first.
random_ship_name_base_first(env) ==
    Bind(random_single_use_choice(env, "NAUTICAL_BASE_NAMES"), LAMBDA b :
        IF b.env.raised # None THEN b
        ELSE Bind(random_single_use_choice(b.env, "NAUTICAL_SUPERLATIVES"), LAMBDA a :
                IF a.env.raised # None THEN a
                ELSE [env |-> a.env, val |-> a.val \o " " \o b.val]))

random_ship_name(env) ==
    Bind(random_single_use_choice(env, "NAUTICAL_SUPERLATIVES"), LAMBDA a :
        IF a.env.raised # None THEN a
        ELSE Bind(random_single_use_choice(a.env, "NAUTICAL_BASE_NAMES"), LAMBDA b :
                IF b.env.raised # None THEN b
                ELSE [env |-> b.env, val |-> a.val \o " " \o b.val]))

random_wa_port_name(env) == random_single_use_choice(env, "WA_PORT_NAMES")

random_bollard_name(env) == random_single_use_choice(env, "BOLLARD_NAMES")

\* the value is the ShipData, or None when a draw raised
generate_ship(env) ==
    Bind(random_ship_name(env), LAMBDA n :
        IF n.env.raised # None THEN [env |-> n.env, val |-> None]
        ELSE Bind(random_single_use_choice(n.env, "SHIP_IDS"), LAMBDA i :
                IF i.env.raised # None THEN [env |-> i.env, val |-> None]
                ELSE Bind(ShipData(n.val, i.val), LAMBDA d :
                        [env |-> [i.env EXCEPT !.raised = d.raised], val |-> d.data])))

-----------------------------------------------------------------------------
(* BollardWorker *)

HOOK_COUNT_MULTIPLIER == 3

\* range(start, stop)
Range(start, stop) == [i \in 1..(stop - start) |-> start + i - 1]

\* for hook_number, hook_status in zip(hook_numbers, hook_statuses): append
RECURSIVE BollardWorker_hooks(_, _, _, _, _)
BollardWorker_hooks(env, hook_numbers, hook_statuses, attached_line, hooks) ==
    IF hook_numbers = <<>> \/ hook_statuses = <<>> \/ env.raised # None
    THEN [env |-> env, obj |-> hooks]
    ELSE Bind(HookWorker_init(env, Head(hook_numbers), Head(hook_statuses), attached_line),
              LAMBDA r :
                BollardWorker_hooks(r.env, Tail(hook_numbers), Tail(hook_statuses),
                                    attached_line, Append(hooks, r.obj)))

\* A variant of the hook numbers that counts from bollard 0.
BollardWorker_hook_numbers_from_zero(bollard_number) ==
    Bind(bollard_number * HOOK_COUNT_MULTIPLIER + 1,
         LAMBDA hook_count_start :
            Range(hook_count_start, hook_count_start + HOOK_COUNT_MULTIPLIER))

\* the hook numbers of the bollard numbered bollard_number
BollardWorker_hook_numbers(bollard_number) ==
    Bind((bollard_number * HOOK_COUNT_MULTIPLIER) - HOOK_COUNT_MULTIPLIER + 1,
         LAMBDA hook_count_start :
            Range(hook_count_start, hook_count_start + HOOK_COUNT_MULTIPLIER))

\* hook_statuses is a triple, as batched(..., 3) produces them
BollardWorker_init(env, bollard_number, attached_line, hook_statuses) ==
    Bind(random_bollard_name(env), LAMBDA n :
        IF n.env.raised # None THEN [env |-> n.env, obj |-> None]
        ELSE Bind(BollardWorker_hooks(n.env, BollardWorker_hook_numbers(bollard_number),
                                      hook_statuses, attached_line, <<>>),
                  LAMBDA h :
                    [env |-> h.env,
                     obj |-> [bollard_number |-> bollard_number, name |-> n.val,
                              hooks |-> h.obj]]))

\* for hook in self.hooks: hook.update()
RECURSIVE BollardWorker_update_hooks(_, _, _)
BollardWorker_update_hooks(env, hooks, done) ==
    IF hooks = <<>> \/ env.raised # None THEN [env |-> env, obj |-> done]
    ELSE Bind(HookWorker_update(env, Head(hooks)), LAMBDA r :
            BollardWorker_update_hooks(r.env, Tail(hooks), Append(done, r.obj)))

BollardWorker_update(env, self) ==
    Bind(BollardWorker_update_hooks(env, self.hooks, <<>>), LAMBDA r :
        [env |-> r.env, obj |-> [self EXCEPT !.hooks = r.obj]])

BollardWorker_data(self) ==
    Bind(DataList([i \in 1..Len(self.hooks) |-> HookWorker_data(self.hooks[i])]),
         LAMBDA hooks :
            IF hooks.raised # None THEN hooks ELSE BollardData(self.name, hooks.data[1]))

-----------------------------------------------------------------------------
(* RadarWorker *)

\* A variant of RadarWorker.__init__ that draws distance and change for an
\* inactive radar too.
RadarWorker_init_always_sampled(env, name, active) ==
    Bind([name |-> name, active |-> active, distance |-> None, change |-> None],
         LAMBDA self :
            Bind(gauss(env), LAMBDA d :
                Bind(gauss(d.env), LAMBDA c :
                    [env |-> c.env,
                     obj |-> [self EXCEPT !.distance = Some(Abs(d.val)),
                                          !.change = Some(Abs(c.val))]])))

RadarWorker_init(env, name, active) ==
    Bind([name |-> name, active |-> active, distance |-> None, change |-> None],
         LAMBDA self :
            IF active
            THEN Bind(gauss(env), LAMBDA d :
                    Bind(gauss(d.env), LAMBDA c :
                        [env |-> c.env,
                         obj |-> [self EXCEPT !.distance = Some(Abs(d.val)),
                                              !.change = Some(Abs(c.val))]]))
            ELSE [env |-> env, obj |-> self])

\* A variant of RadarWorker.update whose change is the signed difference.
RadarWorker_update_signed(env, self) ==
    IF self.active
    THEN Bind(gauss(Called(env, self.name)), LAMBDA r :
            Bind(Abs(r.val), LAMBDA new_distance :
                Bind(self.distance[1] - new_distance, LAMBDA new_change :
                    [env |-> r.env,
                     obj |-> [self EXCEPT !.distance = Some(new_distance),
                                          !.change = Some(new_change)],
                     ret |-> <<Some(new_distance), Some(new_change)>>])))
    ELSE [env |-> Called(env, self.name), obj |-> self, ret |-> <<self.distance, self.change>>]

\* A variant of RadarWorker.update after which the radar is inactive.
RadarWorker_update_deactivating(env, self) ==
    IF self.active
    THEN Bind(gauss(Called(env, self.name)), LAMBDA r :
            Bind(Abs(r.val), LAMBDA new_distance :
                Bind(Abs(self.distance[1] - new_distance), LAMBDA new_change :
                    [env |-> r.env,
                     obj |-> [self EXCEPT !.distance = Some(new_distance),
                                          !.change = Some(new_change),
                                          !.active = FALSE],
                     ret |-> <<Some(new_distance), Some(new_change)>>])))
    ELSE [env |-> Called(env, self.name), obj |-> self, ret |-> <<self.distance, self.change>>]

RadarWorker_update(env, self) ==
    IF self.active
    THEN Bind(gauss(Called(env, self.name)), LAMBDA r :
            Bind(Abs(r.val), LAMBDA new_distance :
                Bind(Abs(self.distance[1] - new_distance), LAMBDA new_change :
                    [env |-> r.env,
                     obj |-> [self EXCEPT !.distance = Some(new_distance),
                                          !.change = Some(new_change)],
                     ret |-> <<Some(new_distance), Some(new_change)>>])))
    ELSE [env |-> Called(env, self.name), obj |-> self, ret |-> <<self.distance, self.change>>]

RadarWorker_data(self) ==
    RadarData(self.name, self.distance, self.change,
              IF self.active THEN "ACTIVE" ELSE "INACTIVE")

-----------------------------------------------------------------------------
(* BerthWorker *)

\* random.choices(population, weights=..., k=k): every weight is positive
choices(env, population, k) ==
    [env |-> [env EXCEPT !.ki = @ + k],
     val |-> [i \in 1..k |-> Pick(population, Cyclic(env.k, env.ki + i - 1))]]

\* batched(values, 3): len(values) is a multiple of 3 here
Batched3(values) ==
    [i \in 1..(Len(values) \div 3) |-> SubSeq(values, 3 * i - 2, 3 * i)]

\* zip(bollard_number_list, bollard_line_name_list, hooks_active_list)
Zip3(xs, ys, zs) == [i \in 1..Len(xs) |-> <<xs[i], ys[i], zs[i]>>]

\* the list of (bollard_number, line_name, hook statuses)
random_bollard_structure(env, bollard_count) ==
    Bind(RangeFromOne(bollard_count), LAMBDA bollard_number_list :
        Bind(choices(env, <<Some(TRUE), Some(FALSE), None>>,
                     Len(bollard_number_list) * HOOK_COUNT_MULTIPLIER),
             LAMBDA drawn :
                [env |-> drawn.env,
                 val |-> Zip3(bollard_number_list,
                              line_name_generator(bollard_number_list),
                              Batched3(drawn.val))]))

\* for radar_num, radar_active in radars: self.radars.append(RadarWorker(...))
RECURSIVE BerthWorker_radars(_, _, _, _, _)
BerthWorker_radars(env, berth_code, numbers, actives, radars) ==
    IF numbers = <<>> \/ env.raised # None THEN [env |-> env, obj |-> radars]
    ELSE Bind(RadarWorker_init(env, "B" \o berth_code \o "RD" \o Str(Head(numbers)),
                               Head(actives)),
              LAMBDA r :
                BerthWorker_radars(r.env, berth_code, Tail(numbers), Tail(actives),
                                   Append(radars, r.obj)))

\* for ... in random_bollard_structure(...): self.bollards.append(BollardWorker(...))
RECURSIVE BerthWorker_bollards(_, _, _)
BerthWorker_bollards(env, structure, bollards) ==
    IF structure = <<>> \/ env.raised # None THEN [env |-> env, obj |-> bollards]
    ELSE Bind(BollardWorker_init(env, Head(structure)[1], Head(structure)[2],
                                 Head(structure)[3]),
              LAMBDA r :
                IF r.env.raised # None THEN [env |-> r.env, obj |-> bollards]
                ELSE BerthWorker_bollards(r.env, Tail(structure), Append(bollards, r.obj)))

\* A variant of the radar list that numbers the radars from 0.
BerthWorker_init_radars_from_zero(env, berth_code) ==
    Bind(choice(env, <<5, 6, 6, 6>>), LAMBDA count :
        Bind(Range(0, count.val), LAMBDA radar_number_list :
            Bind(choices(count.env, <<TRUE, FALSE>>, Len(radar_number_list)),
                 LAMBDA radar_active_list :
                    BerthWorker_radars(radar_active_list.env, berth_code,
                                       radar_number_list, radar_active_list.val, <<>>))))

\* self.radars: random.choice([5, 6, 6, 6]) radars, each active or not
BerthWorker_init_radars(env, berth_code) ==
    Bind(choice(env, <<5, 6, 6, 6>>), LAMBDA count :
        Bind(RangeFromOne(count.val), LAMBDA radar_number_list :
            Bind(choices(count.env, <<TRUE, FALSE>>, Len(radar_number_list)),
                 LAMBDA radar_active_list :
                    BerthWorker_radars(radar_active_list.env, berth_code,
                                       radar_number_list, radar_active_list.val, <<>>))))

\* self.bollards
BerthWorker_init_bollards(env, bollard_count) ==
    Bind(random_bollard_structure(env, bollard_count), LAMBDA structure :
        BerthWorker_bollards(structure.env, structure.val, <<>>))

\* A variant of hook_count that adds the multiplier.
BerthWorker_hook_count_added(bollard_count) == bollard_count + HOOK_COUNT_MULTIPLIER

\* self.hook_count
BerthWorker_hook_count(bollard_count) == bollard_count * HOOK_COUNT_MULTIPLIER

BerthWorker_init(env, berth_code) ==
    Bind(gauss(env), LAMBDA g :
        Bind(ceil(g.val), LAMBDA bollard_count :
            Bind(generate_ship(g.env), LAMBDA ship :
                IF ship.env.raised # None THEN [env |-> ship.env, obj |-> None]
                ELSE Bind(BerthWorker_init_radars(ship.env, berth_code), LAMBDA radars :
                        Bind(BerthWorker_init_bollards(radars.env, bollard_count),
                             LAMBDA bollards :
                                IF bollards.env.raised # None
                                THEN [env |-> bollards.env, obj |-> None]
                                ELSE [env |-> bollards.env,
                                      obj |-> [berth_code |-> berth_code,
                                               bollard_count |-> bollard_count,
                                               hook_count |->
                                                   BerthWorker_hook_count(bollard_count),
                                               ship |-> ship.val[1],
                                               radars |-> radars.obj,
                                               bollards |-> bollards.obj]])))))

BerthWorker_name(self) == "Berth " \o self.berth_code

\* for radar in self.radars: radar.update()
RECURSIVE BerthWorker_update_radars(_, _, _)
BerthWorker_update_radars(env, radars, done) ==
    IF radars = <<>> \/ env.raised # None THEN [env |-> env, obj |-> done]
    ELSE Bind(RadarWorker_update(env, Head(radars)), LAMBDA r :
            BerthWorker_update_radars(r.env, Tail(radars), Append(done, r.obj)))

\* for bollard in self.bollards: bollard.update()
RECURSIVE BerthWorker_update_bollards(_, _, _)
BerthWorker_update_bollards(env, bollards, done) ==
    IF bollards = <<>> \/ env.raised # None THEN [env |-> env, obj |-> done]
    ELSE Bind(BollardWorker_update(env, Head(bollards)), LAMBDA r :
            BerthWorker_update_bollards(r.env, Tail(bollards), Append(done, r.obj)))

\* A variant of BerthWorker.update that updates the bollards first.
BerthWorker_update_bollards_first(env, self) ==
    Bind(BerthWorker_update_bollards(env, self.bollards, <<>>), LAMBDA b :
        Bind(BerthWorker_update_radars(b.env, self.radars, <<>>), LAMBDA r :
            [env |-> r.env, obj |-> [self EXCEPT !.radars = r.obj, !.bollards = b.obj]]))

BerthWorker_update(env, self) ==
    Bind(BerthWorker_update_radars(env, self.radars, <<>>), LAMBDA r :
        Bind(BerthWorker_update_bollards(r.env, self.bollards, <<>>), LAMBDA b :
            [env |-> b.env, obj |-> [self EXCEPT !.radars = r.obj, !.bollards = b.obj]]))

BerthWorker_data(self) ==
    Bind(DataList([i \in 1..Len(self.radars) |-> RadarWorker_data(self.radars[i])]),
         LAMBDA radars :
            IF radars.raised # None THEN radars
            ELSE Bind(DataList([i \in 1..Len(self.bollards) |->
                                    BollardWorker_data(self.bollards[i])]),
                      LAMBDA bollards :
                        IF bollards.raised # None THEN bollards
                        ELSE BerthData(BerthWorker_name(self), self.bollard_count,
                                       self.hook_count, self.ship, radars.data[1],
                                       bollards.data[1])))

-----------------------------------------------------------------------------
(* PortWorker *)

\* A variant of the berth loop that takes the letters from "A".
RECURSIVE PortWorker_berths_from_A(_, _, _)
PortWorker_berths_from_A(env, berth_nums, berths) ==
    IF berth_nums = <<>> \/ env.raised # None THEN [env |-> env, obj |-> berths]
    ELSE Bind(BerthWorker_init(env, Upper[Head(berth_nums)]), LAMBDA r :
            IF r.env.raised # None THEN [env |-> r.env, obj |-> berths]
            ELSE PortWorker_berths_from_A(r.env, Tail(berth_nums), Append(berths, r.obj)))

\* A variant of the berth loop that catches the exception of a berth and
\* goes on with the next one.
RECURSIVE PortWorker_berths_skipping(_, _, _)
PortWorker_berths_skipping(env, berth_nums, berths) ==
    IF berth_nums = <<>> \/ env.raised # None THEN [env |-> env, obj |-> berths]
    ELSE Bind(BerthWorker_init(env, Upper[Head(berth_nums) + 1]), LAMBDA r :
            IF r.env.raised # None
            THEN PortWorker_berths_skipping([r.env EXCEPT !.raised = None],
                                            Tail(berth_nums), berths)
            ELSE PortWorker_berths_skipping(r.env, Tail(berth_nums), Append(berths, r.obj)))

\* for berth_num in range(1, self.berth_count + 1): "ABC..."[berth_num]
RECURSIVE PortWorker_berths(_, _, _)
PortWorker_berths(env, berth_nums, berths) ==
    IF berth_nums = <<>> \/ env.raised # None THEN [env |-> env, obj |-> berths]
    ELSE Bind(BerthWorker_init(env, Upper[Head(berth_nums) + 1]), LAMBDA r :
            IF r.env.raised # None THEN [env |-> r.env, obj |-> berths]
            ELSE PortWorker_berths(r.env, Tail(berth_nums), Append(berths, r.obj)))

\* random.randint(1, 8)
randint(env) == [env |-> env, val |-> env.n]

PortWorker_init(env) ==
    Bind(random_wa_port_name(env), LAMBDA n :
        IF n.env.raised # None THEN [env |-> n.env, obj |-> None]
        ELSE Bind(randint(n.env), LAMBDA berth_count :
                Bind(PortWorker_berths(berth_count.env, Range(1, berth_count.val + 1), <<>>),
                     LAMBDA b :
                        IF b.env.raised # None THEN [env |-> b.env, obj |-> None]
                        ELSE [env |-> b.env,
                              obj |-> [name |-> n.val, berth_count |-> berth_count.val,
                                       berths |-> b.obj]])))

\* for berth in self.berths: berth.update()
RECURSIVE PortWorker_update_berths(_, _, _)
PortWorker_update_berths(env, berths, done) ==
    IF berths = <<>> \/ env.raised # None THEN [env |-> env, obj |-> done]
    ELSE Bind(BerthWorker_update(env, Head(berths)), LAMBDA r :
            PortWorker_update_berths(r.env, Tail(berths), Append(done, r.obj)))

PortWorker_update(env, self) ==
    Bind(PortWorker_update_berths(env, self.berths, <<>>), LAMBDA r :
        [env |-> r.env, obj |-> [self EXCEPT !.berths = r.obj]])

PortWorker_data(self) ==
    Bind(DataList([i \in 1..Len(self.berths) |-> BerthWorker_data(self.berths[i])]),
         LAMBDA berths :
            IF berths.raised # None THEN berths ELSE PortData(self.name, berths.data[1]))

-----------------------------------------------------------------------------
(* The payload on the wire.  A JSON object is a record, or <<>> for {}; a   *)
(* member that the receiver reads with .get(key) and no default holds None  *)
(* for null and <<v>> for a value v; a JSON array is a sequence.            *)

\* model_dump(by_alias=True): the field names in camel case
model_dump_hook(h) ==
    [name |-> Some(h.name), tension |-> h.tension, faulted |-> Some(h.faulted),
     attachedLine |-> h.attached_line]

model_dump_bollard(b) ==
    [name |-> b.name, hooks |-> [i \in 1..Len(b.hooks) |-> model_dump_hook(b.hooks[i])]]

model_dump_radar(r) ==
    [name |-> r.name, shipDistance |-> r.ship_distance,
     distanceChange |-> r.distance_change, distanceStatus |-> r.distance_status]

model_dump_berth(b) ==
    [name |-> b.name, bollardCount |-> b.bollard_count, hookCount |-> b.hook_count,
     ship |-> [name |-> b.ship.name, vesselId |-> b.ship.vessel_id],
     radars |-> [i \in 1..Len(b.radars) |-> model_dump_radar(b.radars[i])],
     bollards |-> [i \in 1..Len(b.bollards) |-> model_dump_bollard(b.bollards[i])]]

model_dump(data) ==
    [name |-> data.name,
     berths |-> [i \in 1..Len(data.berths) |-> model_dump_berth(data.berths[i])]]

\* the body of a POST: the text of a JSON object or of a JSON array, text that
\* is no JSON, or bytes that are no UTF-8
json_loads(body) ==
    CASE body.kind \in {"object", "array"} -> Ok(body)
      [] body.kind = "text" -> Raise("JSONDecodeError")
      [] body.kind = "bytes" -> Raise("UnicodeDecodeError")

\* d.get(key) and d.get(key, default)
get(d, key) == IF key \in DOMAIN d THEN d[key] ELSE None
get_or(d, key, default) == IF key \in DOMAIN d THEN d[key] ELSE default

-----------------------------------------------------------------------------
(* parsejson.py *)

\* A variant of the innermost loop that walks the hooks of a bollard backwards.
parse_hooks_reversed(ts, port_name, berth_name, bollard_name, hooks) ==
    [i \in 1..Len(hooks) |->
        [timestamp |-> ts, port_name |-> port_name, berth_name |-> berth_name,
         bollard_name |-> bollard_name,
         hook_name |-> get(hooks[Len(hooks) + 1 - i], "name"),
         tension |-> get(hooks[Len(hooks) + 1 - i], "tension"),
         faulted |-> get(hooks[Len(hooks) + 1 - i], "faulted"),
         attached_line |-> get(hooks[Len(hooks) + 1 - i], "attachedLine")]]

\* for hook in bollard.get("hooks", []): records.append(record)
parse_hooks(ts, port_name, berth_name, bollard_name, hooks) ==
    [i \in 1..Len(hooks) |->
        [timestamp |-> ts, port_name |-> port_name, berth_name |-> berth_name,
         bollard_name |-> bollard_name,
         hook_name |-> get(hooks[i], "name"),
         tension |-> get(hooks[i], "tension"),
         faulted |-> get(hooks[i], "faulted"),
         attached_line |-> get(hooks[i], "attachedLine")]]

RECURSIVE parse_bollards(_, _, _, _)
parse_bollards(ts, port_name, berth_name, bollards) ==
    IF bollards = <<>> THEN <<>>
    ELSE parse_hooks(ts, port_name, berth_name,
                     get_or(Head(bollards), "name", "UNKNOWN_BOLLARD"),
                     get_or(Head(bollards), "hooks", <<>>))
           \o parse_bollards(ts, port_name, berth_name, Tail(bollards))

RECURSIVE parse_berths(_, _, _)
parse_berths(ts, port_name, berths) ==
    IF berths = <<>> THEN <<>>
    ELSE parse_bollards(ts, port_name, get_or(Head(berths), "name", "UNKNOWN_BERTH"),
                        get_or(Head(berths), "bollards", <<>>))
           \o parse_berths(ts, port_name, Tail(berths))

\* ts is what datetime.now().isoformat() gives while the payload is parsed
parse_mooring_payload(payload, ts) ==
    parse_berths(ts, get_or(payload, "name", "UNKNOWN_PORT"), get_or(payload, "berths", <<>>))

-----------------------------------------------------------------------------
(* hookclass.py *)

Hook_init(name, bollard_name, berth_name, port_name) ==
    [name |-> name, bollard_name |-> bollard_name, berth_name |-> berth_name,
     port_name |-> port_name, max_tension |-> 10, history |-> <<>>,
     current_tension |-> None, previous_tension |-> None,
     faulted |-> Some(FALSE), attached_line |-> None]

\* A variant of Hook.update that takes the new tension as the previous one.
Hook_update_previous_late(self, tension, faulted, attached_line, timestamp) ==
    [self EXCEPT !.previous_tension = tension,
                 !.current_tension = tension,
                 !.faulted = faulted,
                 !.attached_line = attached_line,
                 !.history = Append(@, [timestamp |-> timestamp, tension |-> tension])]

Hook_update(self, tension, faulted, attached_line, timestamp) ==
    [self EXCEPT !.previous_tension = self.current_tension,
                 !.current_tension = tension,
                 !.faulted = faulted,
                 !.attached_line = attached_line,
                 !.history = Append(@, [timestamp |-> timestamp, tension |-> tension])]

\* how the double (t / 10) * 100 lies to 10 * t, for the integers t of 0..98:
\* below (-1), on it (0) or above (1)
FloatRounding(t) ==
    CASE t \in {23, 41, 46, 51, 82, 87, 92, 97} -> -1
      [] t \in {11, 22, 44, 49, 83, 88, 93, 98} -> 1
      [] OTHER -> 0

\* (current_tension / max_tension) * 100 in half percents, so that the
\* rounding of the double has its place; max_tension is 10 for every Hook
Hook_tension_percent(self) ==
    IF self.current_tension = None THEN None
    ELSE Some(2 * ((self.current_tension[1] * 100) \div self.max_tension)
                + FloatRounding(self.current_tension[1]))

\* the default thresholds, in percent of max_tension
NEEDS_ATTENTION_DEFAULT == 50            \* Hook.needs_attention
IS_CRITICAL_DEFAULT == 80                \* Hook.is_critical
HOOKS_NEEDING_ATTENTION_DEFAULT == 80    \* MooringMonitor.hooks_needing_attention
HOOKS_CRITICAL_DEFAULT == 90             \* MooringMonitor.hooks_critical

\* A variant of needs_attention that takes a hook without tension for one in need.
Hook_needs_attention_of_none(self, attention_threshold) ==
    Hook_tension_percent(self) = None
        \/ Hook_tension_percent(self)[1] >= 2 * attention_threshold

Hook_needs_attention(self, attention_threshold) ==
    IF Hook_tension_percent(self) = None THEN FALSE
    ELSE Hook_tension_percent(self)[1] >= 2 * attention_threshold

Hook_is_critical(self, critical_threshold) ==
    IF Hook_tension_percent(self) = None THEN FALSE
    ELSE Hook_tension_percent(self)[1] >= 2 * critical_threshold

\* str() of a value read with .get(key)
FormatValue(v) == IF v = None THEN "None" ELSE v[1]

RecordKey(record) ==
    record.berth_name \o "." \o record.bollard_name \o "." \o FormatValue(record.hook_name)

HookKeys(hooks) == {hooks[i].key : i \in 1..Len(hooks)}

\* A variant of update_from_record that makes a new entry for every record.
MooringMonitor_update_from_record_fresh(hooks, record) ==
    Append(hooks,
           [key |-> RecordKey(record),
            hook |-> Hook_update(Hook_init(record.hook_name, record.bollard_name,
                                           record.berth_name, record.port_name),
                                 record.tension, record.faulted, record.attached_line,
                                 record.timestamp)])

\* self.hooks as the sequence of its entries, in insertion order
MooringMonitor_update_from_record(hooks, record) ==
    Bind(IF RecordKey(record) \in HookKeys(hooks) THEN hooks
         ELSE Append(hooks, [key |-> RecordKey(record),
                             hook |-> Hook_init(record.hook_name, record.bollard_name,
                                                record.berth_name, record.port_name)]),
         LAMBDA hs :
            [i \in 1..Len(hs) |->
                IF hs[i].key = RecordKey(record)
                THEN [hs[i] EXCEPT !.hook = Hook_update(@, record.tension, record.faulted,
                                                        record.attached_line,
                                                        record.timestamp)]
                ELSE hs[i]])

MooringMonitor_hooks_needing_attention(hooks, attention_threshold) ==
    SelectSeq(hooks, LAMBDA e : Hook_needs_attention(e.hook, attention_threshold))

MooringMonitor_hooks_critical(hooks, critical_threshold) ==
    SelectSeq(hooks, LAMBDA e : Hook_is_critical(e.hook, critical_threshold))

-----------------------------------------------------------------------------
(* httpreceiver.py *)

\* for record in records: monitor.update_from_record(record)
RECURSIVE update_from_records(_, _)
update_from_records(hooks, records) ==
    IF records = <<>> THEN hooks
    ELSE update_from_records(MooringMonitor_update_from_record(hooks, Head(records)),
                             Tail(records))

\* the lines printed for the hooks needing attention: label and key
Alerts(attention_hooks) ==
    [i \in 1..Len(attention_hooks) |->
        <<IF Hook_is_critical(attention_hooks[i].hook, IS_CRITICAL_DEFAULT) THEN "CRITICAL" ELSE "ATTENTION",
          attention_hooks[i].key>>]

Response(status, body, printed, raised) ==
    [status |-> status, body |-> body, printed |-> printed, raised |-> raised]

\* A variant of do_POST that answers 200 to a body that is no JSON.
do_POST_lenient(hooks, body, ts) ==
    IF body.kind # "object"
    THEN [hooks |-> hooks, records |-> <<>>,
          reply |-> Response(Some(200), Some(0), <<>>, None)]
    ELSE Bind(parse_mooring_payload(body.value, ts), LAMBDA records :
            Bind(update_from_records(hooks, records), LAMBDA hs :
                [hooks |-> hs, records |-> records,
                 reply |-> Response(Some(200), Some(Len(records)),
                                    Alerts(MooringMonitor_hooks_needing_attention(
                                                    hs, HOOKS_NEEDING_ATTENTION_DEFAULT)),
                                    None)]))

\* MooringHandler.do_POST on the module-level monitor: the hooks after it, the
\* records it folded in and its answer.  An exception that leaves the
\* handler leaves the request without a status line.
do_POST(hooks, body, ts) ==
    Bind(json_loads(body), LAMBDA loaded :
        IF loaded.raised = Some("JSONDecodeError")
        THEN [hooks |-> hooks, records |-> <<>>,
              reply |-> Response(Some(400), Some("Invalid JSON"), <<>>, None)]
        ELSE IF loaded.raised # None
        THEN [hooks |-> hooks, records |-> <<>>,
              reply |-> Response(None, None, <<>>, loaded.raised)]
        ELSE IF body.kind = "array"
        THEN [hooks |-> hooks, records |-> <<>>,
              reply |-> Response(None, None, <<>>, Some("AttributeError"))]
        ELSE Bind(parse_mooring_payload(body.value, ts), LAMBDA records :
                Bind(update_from_records(hooks, records), LAMBDA hs :
                    [hooks |-> hs, records |-> records,
                     reply |-> Response(Some(200), Some(Len(records)),
                                        Alerts(MooringMonitor_hooks_needing_attention(
                                                    hs, HOOKS_NEEDING_ATTENTION_DEFAULT)),
                                        None)])))

-----------------------------------------------------------------------------
(* Bounds and input sets *)

MaxLineN == 100        \* longest bollard list given to line_name_generator
MaxHookNumber == 6     \* largest hook_number given to a HookWorker built alone
PoolSize == 2          \* length of each pool when only the pools are exercised
MaxBerths == 2         \* random.randint(1, 8) returns 1..MaxBerths, or 8
MaxPick == 2           \* random.choice picks one of the first MaxPick elements
NPortNames == 2        \* the pools a PortWorker is built from: port names,
NSuperlatives == 8     \*   superlatives,
NBaseNames == 8        \*   base names,
NBollardNames == 24    \*   bollard names
NShipIds == 8          \*   and ship ids

\* random.gauss samples, in halves: -1.5, -0.5, 0.5, 2.0 and 19.5
GaussSamples == {-3, -1, 1, 4, 39}

\* the environment of an operation that only calls random.gauss, once
GaussEnv(g) == Env(<<g>>, <<1>>, 1, <<1>>, pools, handed)

\* the environment of an operation that only draws from the pools
ChoiceEnv(c) == Env(<<0>>, c, 1, <<1>>, pools, handed)

Op(name, rnd, ret, raised) == [name |-> name, rnd |-> rnd, ret |-> ret, raised |-> raised]

Start == Op("start", <<>>, <<>>, None)

LineIdle == bollard_list = <<>> /\ response = <<>>
HookIdle == hook = None /\ hook_args = None
PoolIdle == pools = Pools(0, 0, 0, 0, 0) /\ handed = NothingHanded
PortIdle == port = None /\ exported = None
RadarIdle == radar = None /\ radar_args = None
LoopIdle == loop = None
MonitorIdle == monitor = <<>> /\ received = <<>> /\ reply = None

-----------------------------------------------------------------------------
(* line_name_generator called on list(range(1, n + 1)) *)

LineNameGenerator ==
    \E n \in 0..MaxLineN :
        /\ bollard_list' = RangeFromOne(n)
        /\ response' = line_name_generator(bollard_list')
        /\ op' = Op("line_name_generator", <<>>, <<>>, None)
        /\ UNCHANGED <<monitorVars, radarVars, loopVars, hookVars, poolVars, portVars>>

InitLine == op = Start /\ LineIdle /\ HookIdle /\ PoolIdle /\ PortIdle /\ RadarIdle /\ LoopIdle /\ MonitorIdle
NextLine == LineNameGenerator
SpecLine == InitLine /\ [][NextLine]_vars

-----------------------------------------------------------------------------
(* A HookWorker built and driven on its own *)

HookInit ==
    \E hook_number \in 1..MaxHookNumber, hook_status \in HookStatus,
       attached_line \in Lines, g \in GaussSamples :
        LET r == HookWorker_init(GaussEnv(g), hook_number, hook_status, attached_line)
        IN /\ hook' = r.obj
           /\ hook_args' = [hook_number |-> hook_number, hook_status |-> hook_status,
                            attached_line |-> attached_line]
           /\ exported' = None
           /\ op' = Op("HookWorker", IF r.env.gi > 0 THEN <<g>> ELSE <<>>, <<>>, None)
           /\ UNCHANGED <<monitorVars, radarVars, loopVars, lineVars, poolVars, port>>

HookUpdate ==
    /\ hook # None
    /\ \E g \in GaussSamples :
        LET r == HookWorker_update(GaussEnv(g), hook)
        IN /\ hook' = r.obj
           /\ op' = Op("HookWorker.update", IF r.env.gi > 0 THEN <<g>> ELSE <<>>, <<>>, None)
           /\ UNCHANGED <<monitorVars, radarVars, loopVars, hook_args, exported, lineVars, poolVars, port>>

HookExport ==
    /\ hook # None
    /\ exported' = HookWorker_data(hook)
    /\ op' = Op("HookWorker.data", <<>>, <<>>, exported'.raised)
    /\ UNCHANGED <<monitorVars, radarVars, loopVars, hookVars, lineVars, poolVars, port>>

InitHook == op = Start /\ LineIdle /\ HookIdle /\ PoolIdle /\ PortIdle /\ RadarIdle /\ LoopIdle /\ MonitorIdle
NextHook == HookInit \/ HookUpdate \/ HookExport
SpecHook == InitHook /\ [][NextHook]_vars

-----------------------------------------------------------------------------
(* A RadarWorker built and driven on its own *)

RadarBuilt(r, active, samples) ==
    /\ radar' = r.obj
    /\ radar_args' = [name |-> "BARD1", active |-> active]
    /\ exported' = None
    /\ op' = Op("RadarWorker", IF r.env.gi > 0 THEN samples ELSE <<>>, <<>>, None)
    /\ UNCHANGED <<monitorVars, loopVars, lineVars, hookVars, poolVars, port>>

RadarInit ==
    \E active \in BOOLEAN, d \in GaussSamples, c \in GaussSamples :
        RadarBuilt(RadarWorker_init(Env(<<d, c>>, <<1>>, 1, <<1>>, pools, handed),
                                    "BARD1", active),
                   active, <<d, c>>)

RadarUpdated(r, g) ==
    /\ radar' = r.obj
    /\ op' = Op("RadarWorker.update", IF r.env.gi > 0 THEN <<g>> ELSE <<>>, r.ret, None)
    /\ UNCHANGED <<monitorVars, radar_args, exported, loopVars, lineVars, hookVars, poolVars, port>>

RadarUpdate ==
    /\ radar # None
    /\ \E g \in GaussSamples : RadarUpdated(RadarWorker_update(GaussEnv(g), radar), g)

RadarExport ==
    /\ radar # None
    /\ exported' = RadarWorker_data(radar)
    /\ op' = Op("RadarWorker.data", <<>>, <<>>, exported'.raised)
    /\ UNCHANGED <<monitorVars, radarVars, loopVars, lineVars, hookVars, poolVars, port>>

InitRadar ==
    op = Start /\ LineIdle /\ HookIdle /\ PoolIdle /\ PortIdle /\ RadarIdle /\ LoopIdle /\ MonitorIdle
NextRadar == RadarInit \/ RadarUpdate \/ RadarExport
SpecRadar == InitRadar /\ [][NextRadar]_vars

-----------------------------------------------------------------------------
(* The pool helpers called on their own *)

PoolPicks == 1..PoolSize

\* how many names the five pools hold
Held(ps) ==
    Len(ps["WA_PORT_NAMES"]) + Len(ps["NAUTICAL_SUPERLATIVES"])
        + Len(ps["NAUTICAL_BASE_NAMES"]) + Len(ps["BOLLARD_NAMES"]) + Len(ps["SHIP_IDS"])

\* op.ret notes how many names the call took out of the pools
PoolStep(name, r) ==
    /\ pools' = r.env.pools
    /\ handed' = r.env.handed
    /\ op' = Op(name, <<>>, <<Held(pools) - Held(r.env.pools)>>, r.env.raised)
    /\ UNCHANGED <<monitorVars, radarVars, loopVars, lineVars, hookVars, portVars>>

PoolConstructed(r) ==
    /\ port' = r.obj
    /\ exported' = None
    /\ pools' = r.env.pools
    /\ handed' = r.env.handed
    /\ op' = Op("PortWorker", <<>>, <<Held(pools) - Held(r.env.pools)>>, r.env.raised)
    /\ UNCHANGED <<monitorVars, radarVars, loopVars, lineVars, hookVars>>

\* PortWorker() on the short pools: one berth of two bollards
PoolPortWorker ==
    /\ port = None
    /\ \E i \in PoolPicks :
        PoolConstructed(PortWorker_init(Env(<<4>>, <<i>>, 1, <<1>>, pools, handed)))

RandomWaPortName ==
    \E i \in PoolPicks : PoolStep("random_wa_port_name", random_wa_port_name(ChoiceEnv(<<i>>)))

RandomBollardName ==
    \E i \in PoolPicks : PoolStep("random_bollard_name", random_bollard_name(ChoiceEnv(<<i>>)))

RandomShipName ==
    \E i \in PoolPicks, j \in PoolPicks :
        PoolStep("random_ship_name", random_ship_name(ChoiceEnv(<<i, j>>)))

GenerateShip ==
    \E i \in PoolPicks, j \in PoolPicks, k \in PoolPicks :
        PoolStep("generate_ship", generate_ship(ChoiceEnv(<<i, j, k>>)))

\* every pool has PoolSize elements, the superlatives one more
InitPools == Pools(PoolSize, PoolSize + 1, PoolSize, PoolSize, PoolSize)

InitPool ==
    /\ op = Start /\ LineIdle /\ HookIdle /\ PortIdle /\ RadarIdle /\ LoopIdle /\ MonitorIdle
    /\ pools = InitPools /\ handed = NothingHanded
NextPool ==
    RandomWaPortName \/ RandomBollardName \/ RandomShipName \/ GenerateShip \/ PoolPortWorker
SpecPool == InitPool /\ [][NextPool]_vars

-----------------------------------------------------------------------------
(* One process: a PortWorker is built (build_random_port), then updated and  *)
(* exported any number of times.                                             *)

\* the non-empty sequences over S of length at most 2
Streams(S) == {<<a>> : a \in S} \cup {<<a, b>> : a \in S, b \in S}

\* samples in halves: -1.5, 2.0 and 19.5
PortGauss == {-3, 4, 39}

\* what random.randint(1, 8) returns: the small counts and the largest
BerthCounts == {n \in 1..8 : n <= MaxBerths \/ n = 8}

PortEnvs ==
    {Env(g, <<c>>, n, k, pools, handed) :
        g \in Streams(PortGauss), c \in 1..MaxPick, n \in BerthCounts,
        k \in Streams(1..3)}

UpdateEnvs == {GaussEnv(g[1]) : g \in {<<a>> : a \in PortGauss}}

\* port = PortWorker(): the name stays unbound when the constructor raises
Constructed(r) ==
    /\ port' = r.obj
    /\ pools' = r.env.pools
    /\ handed' = r.env.handed
    /\ op' = Op("PortWorker", <<>>, <<>>, r.env.raised)
    /\ exported' = None
    /\ UNCHANGED <<monitorVars, radarVars, loopVars, lineVars, hookVars>>

Construct ==
    /\ port = None
    /\ \E env \in PortEnvs : Constructed(PortWorker_init(env))

\* op.ret lists, in order, the workers whose update() the call reached
Updated(r) ==
    /\ port' = r.obj
    /\ op' = Op("PortWorker.update", <<>>, r.env.log, None)
    /\ exported' = None
    /\ UNCHANGED <<monitorVars, radarVars, loopVars, lineVars, hookVars, poolVars>>

Update ==
    /\ port # None
    /\ \E env \in UpdateEnvs : Updated(PortWorker_update(env, port))

\* how many times port.data was read since the port last changed: 1, or 2
\* for any further read
Reads == IF exported = None THEN 1 ELSE 2

\* A variant of the export that also updates the port.
Export_updating ==
    /\ port # None
    /\ exported' = PortWorker_data(port)
    /\ port' = PortWorker_update(GaussEnv(4), port).obj
    /\ op' = Op("PortWorker.data", <<>>, <<Reads>>, exported'.raised)
    /\ UNCHANGED <<monitorVars, radarVars, loopVars, lineVars, hookVars, poolVars>>

Export ==
    /\ port # None
    /\ exported' = PortWorker_data(port)
    /\ op' = Op("PortWorker.data", <<>>, <<Reads>>, exported'.raised)
    /\ UNCHANGED <<monitorVars, radarVars, loopVars, port, lineVars, hookVars, poolVars>>

Init ==
    /\ op = Start /\ LineIdle /\ HookIdle /\ PortIdle /\ RadarIdle /\ LoopIdle /\ MonitorIdle
    /\ pools = Pools(NPortNames, NSuperlatives, NBaseNames, NBollardNames, NShipIds)
    /\ handed = NothingHanded
Next == Construct \/ Update \/ Export
Spec == Init /\ [][Next]_vars

-----------------------------------------------------------------------------
(* A PortWorker is built, a test then assigns an out-of-range tension to one *)
(* of its hooks, and the port is exported.                                   *)

\* tensions outside Field(ge=0, lt=99)
ForcedTensions == {99, 150}

\* port.berths[i].bollards[k].hooks[j].tension = t, in Python's 0-based terms
\* berths[i-1].bollards[k-1].hooks[j-1]
Force ==
    /\ port # None
    /\ op.name = "PortWorker"
    /\ \E i \in DOMAIN port.berths :
        \E k \in DOMAIN port.berths[i].bollards :
            \E j \in DOMAIN port.berths[i].bollards[k].hooks, t \in ForcedTensions :
                /\ port' = [port EXCEPT
                              !.berths[i].bollards[k].hooks[j].tension = Some(t)]
                /\ op' = Op("force", <<>>, <<i, k, j>>, None)
    /\ exported' = None
    /\ UNCHANGED <<monitorVars, radarVars, loopVars, lineVars, hookVars, poolVars>>

NextForced == Construct \/ Force \/ Export
SpecForced == Init /\ [][NextForced]_vars

-----------------------------------------------------------------------------
(* The transport loops: file_worker.run(path) and http_worker.run(url).     *)
(* loop is the frame of run: kind is the transport, pc the position, loops  *)
(* and payloads its counters, log what the logger received, pending a       *)
(* KeyboardInterrupt raised in the try body that propagates once the        *)
(* finally block is through, raised the exception that leaves run.          *)
(* updates, sleeps and results note the calls of port.update(), the         *)
(* completed time.sleep(2) and the outcome of each try body.                *)

\* iterations of `while True` that are followed
MaxLoops == 2

Transports == {"file", "http"}

\* the write or send of one iteration: it succeeds, raises an OSError (for
\* http also as URLError, HTTPError or TimeoutError), raises another
\* Exception, or Ctrl+C arrives in the try body
TransportOutcomes == {"ok", "OSError", "ValueError", "KeyboardInterrupt"}

FailureMessage(kind) == IF kind = "file" THEN "File write failed" ELSE "HTTP send failed"

Interrupted == "Interrupted by user. Exiting."

\* port = build_random_port(); loops = 0; payloads = 1
Run_build(kind, raised) ==
    [kind |-> kind, pc |-> IF raised = None THEN "top" ELSE "raised",
     loops |-> 0, payloads |-> 1, updates |-> 0, sleeps |-> 0,
     log |-> <<>>, results |-> <<>>, pending |-> FALSE, raised |-> raised]

\* A variant of the try body that counts the payload before it is written.
Run_try_counting_attempts(self, data, outcome) ==
    [self EXCEPT !.loops = @ + 1, !.pc = "finally",
        !.payloads = IF outcome # "KeyboardInterrupt" /\ data.raised = None THEN @ + 1 ELSE @,
        !.pending = outcome = "KeyboardInterrupt",
        !.results = Append(@, IF outcome = "KeyboardInterrupt" THEN outcome
                              ELSE IF data.raised # None THEN "ValidationError"
                              ELSE outcome),
        !.log = IF outcome = "KeyboardInterrupt" \/ (data.raised = None /\ outcome = "ok") THEN @
                ELSE IF data.raised = None /\ outcome = "OSError"
                     THEN Append(@, FailureMessage(self.kind))
                ELSE @ \o <<"Unknown Error", "exception">>]

\* loops += 1 and the try body with its except clauses: data is what
\* port.data gave, outcome what the write or send did
Run_try(self, data, outcome) ==
    [self EXCEPT !.loops = @ + 1, !.pc = "finally",
        !.payloads = IF outcome = "ok" /\ data.raised = None THEN @ + 1 ELSE @,
        !.pending = outcome = "KeyboardInterrupt",
        !.results = Append(@, IF outcome = "KeyboardInterrupt" THEN outcome
                              ELSE IF data.raised # None THEN "ValidationError"
                              ELSE outcome),
        !.log = IF outcome = "KeyboardInterrupt" \/ (data.raised = None /\ outcome = "ok") THEN @
                ELSE IF data.raised = None /\ outcome = "OSError"
                     THEN Append(@, FailureMessage(self.kind))
                ELSE @ \o <<"Unknown Error", "exception">>]

\* A variant of the finally block that logs the Exception and carries on.
Run_update_swallowing(self, raised) ==
    IF raised = None
    THEN [self EXCEPT !.updates = @ + 1, !.pc = "sleep"]
    ELSE [self EXCEPT !.updates = @ + 1, !.pc = "sleep",
                      !.log = @ \o <<"Port update failed", "exception">>]

\* finally: port.update(); an Exception of it is logged and raised again
Run_update(self, raised) ==
    IF raised = None
    THEN [self EXCEPT !.updates = @ + 1, !.pc = "sleep"]
    ELSE [self EXCEPT !.updates = @ + 1, !.pc = "raised", !.raised = raised,
                      !.log = @ \o <<"Port update failed", "exception">>]

\* finally: time.sleep(2), then the pending KeyboardInterrupt reaches the
\* outer except clause, or the loop goes round
Run_sleep(self) ==
    IF self.pending
    THEN [self EXCEPT !.sleeps = @ + 1, !.pc = "done", !.log = Append(@, Interrupted)]
    ELSE [self EXCEPT !.sleeps = @ + 1, !.pc = "top"]

\* A variant of run without the outer except clause.
Run_interrupt_escaping(self) ==
    [self EXCEPT !.pc = "raised", !.raised = Some("KeyboardInterrupt")]

\* except KeyboardInterrupt: Ctrl+C outside the try body
Run_interrupt(self) ==
    [self EXCEPT !.pc = "done", !.log = Append(@, Interrupted)]

\* the ports a transport loop is started with: one berth
LoopEnvs ==
    {Env(<<g>>, <<c>>, 1, <<k>>, pools, handed) :
        g \in PortGauss, c \in 1..MaxPick, k \in 1..3}

Started(kind, r) ==
    /\ loop' = Run_build(kind, r.env.raised)
    /\ port' = r.obj
    /\ pools' = r.env.pools
    /\ handed' = r.env.handed
    /\ exported' = None
    /\ op' = Op("run", <<kind>>, <<>>, r.env.raised)
    /\ UNCHANGED <<monitorVars, radarVars, lineVars, hookVars>>

LoopStart ==
    /\ loop = None /\ port = None
    /\ \E kind \in Transports, env \in LoopEnvs : Started(kind, PortWorker_init(env))

Tried(data, outcome) ==
    /\ loop' = Run_try(loop, data, outcome)
    /\ exported' = data
    /\ op' = Op("run.try", <<outcome>>, <<>>, None)
    /\ UNCHANGED <<monitorVars, port, poolVars, radarVars, lineVars, hookVars>>

LoopTry ==
    /\ loop # None /\ loop.pc = "top" /\ loop.loops < MaxLoops
    /\ \E outcome \in TransportOutcomes : Tried(PortWorker_data(port), outcome)

\* what port.update() does in the loop: the built port's update returns; a
\* port put in place of the built one, as in the tests of run, may raise
UpdateRaises == {None, Some("RuntimeError")}

LoopUpdated(r, raised) ==
    /\ loop' = Run_update(loop, IF r.env.raised # None THEN r.env.raised ELSE raised)
    /\ port' = IF raised = None THEN r.obj ELSE port
    /\ op' = Op("run.update", <<>>, <<>>, IF r.env.raised # None THEN r.env.raised ELSE raised)
    /\ UNCHANGED <<monitorVars, exported, poolVars, radarVars, lineVars, hookVars>>

LoopUpdate ==
    /\ loop # None /\ loop.pc = "finally"
    /\ \E env \in UpdateEnvs, raised \in UpdateRaises :
            LoopUpdated(PortWorker_update(env, port), raised)

LoopSleep ==
    /\ loop # None /\ loop.pc = "sleep"
    /\ loop' = Run_sleep(loop)
    /\ op' = Op("run.sleep", <<>>, <<>>, None)
    /\ UNCHANGED <<monitorVars, port, exported, poolVars, radarVars, lineVars, hookVars>>

LoopInterrupt ==
    /\ loop # None /\ loop.pc \in {"top", "finally", "sleep"}
    /\ loop' = Run_interrupt(loop)
    /\ op' = Op("run.interrupt", <<>>, <<>>, None)
    /\ UNCHANGED <<monitorVars, port, exported, poolVars, radarVars, lineVars, hookVars>>

NextLoop == LoopStart \/ LoopTry \/ LoopUpdate \/ LoopSleep \/ LoopInterrupt
SpecLoop == Init /\ [][NextLoop]_vars

-----------------------------------------------------------------------------
(* Properties of the port tree (Spec) *)

\* the berths of the port that was built, none before that
Berths == IF port = None THEN <<>> ELSE port.berths

\* the latest export produced a record tree
Exported == exported # None /\ exported.raised = None

BerthRadars(berth) == {berth.radars[j] : j \in DOMAIN berth.radars}
BerthHooks(berth) ==
    UNION {{berth.bollards[k].hooks[j] : j \in DOMAIN berth.bollards[k].hooks} :
            k \in DOMAIN berth.bollards}

\* a radar whose last two distances were equal: only update() computes a
\* change from two distances, the constructor draws it
SomeRadarUpdated ==
    \E i \in DOMAIN Berths : \E r \in BerthRadars(Berths[i]) : r.change = Some(0)

\* C1: for every BerthWorker, after construction and after any number of
\* update() calls, hook_count equals bollard_count * 3, and an exported
\* BerthData carries the same two values.
C1_HookCountIsThreeTimesBollardCount ==
    /\ \A i \in DOMAIN Berths : Berths[i].hook_count = Berths[i].bollard_count * 3
    /\ Exported =>
        \A i \in DOMAIN Berths :
            /\ exported.data[1].berths[i].bollard_count = Berths[i].bollard_count
            /\ exported.data[1].berths[i].hook_count = Berths[i].bollard_count * 3

\* a port with a berth of 2 bollards and 6 hooks, updated and then exported
C1_Witness ==
    /\ op.name = "PortWorker.data" /\ Exported /\ SomeRadarUpdated
    /\ \E i \in DOMAIN Berths :
        /\ Berths[i].bollard_count = 2
        /\ exported.data[1].berths[i].hook_count = 6

\* C2: the bollard numbered k owns exactly 3 hooks, named in order
\* "Hook 3k-2", "Hook 3k-1", "Hook 3k"; within a berth of N bollards the hook
\* numbers are exactly 1..3N, each used once.
C2_HookNumbering ==
    \A i \in DOMAIN Berths :
        /\ \A k \in DOMAIN Berths[i].bollards :
            /\ Berths[i].bollards[k].bollard_number = k
            /\ Len(Berths[i].bollards[k].hooks) = 3
            /\ Berths[i].bollards[k].hooks[1].name = "Hook " \o Str(3 * k - 2)
            /\ Berths[i].bollards[k].hooks[2].name = "Hook " \o Str(3 * k - 1)
            /\ Berths[i].bollards[k].hooks[3].name = "Hook " \o Str(3 * k)
        /\ {h.name : h \in BerthHooks(Berths[i])}
             = {"Hook " \o Str(m) : m \in 1..(3 * Len(Berths[i].bollards))}
        /\ Cardinality({h.name : h \in BerthHooks(Berths[i])})
             = 3 * Len(Berths[i].bollards)

\* a berth of 20 bollards whose last bollard owns "Hook 58".."Hook 60"
C2_Witness ==
    \E i \in DOMAIN Berths :
        /\ Len(Berths[i].bollards) = 20
        /\ Berths[i].bollards[2].hooks[1].name = "Hook 4"
        /\ Berths[i].bollards[20].hooks[3].name = "Hook 60"

\* what update() is said to leave alone
HookFrame(h) ==
    [name |-> h.name, active |-> h.active, fault |-> h.fault,
     attached_line |-> h.attached_line]
RadarFrame(r) == [name |-> r.name, active |-> r.active]
BollardFrame(b) ==
    [bollard_number |-> b.bollard_number, name |-> b.name,
     hooks |-> [j \in DOMAIN b.hooks |-> HookFrame(b.hooks[j])]]
BerthFrame(b) ==
    [name |-> BerthWorker_name(b), bollard_count |-> b.bollard_count,
     hook_count |-> b.hook_count, ship |-> b.ship,
     radars |-> [j \in DOMAIN b.radars |-> RadarFrame(b.radars[j])],
     bollards |-> [k \in DOMAIN b.bollards |-> BollardFrame(b.bollards[k])]]
PortFrame(p) ==
    [name |-> p.name, berth_count |-> p.berth_count,
     berths |-> [i \in DOMAIN p.berths |-> BerthFrame(p.berths[i])]]

\* C3: PortWorker.update() changes only hook tension and radar
\* distance/change: the port name, berth names, bollard_count, hook_count,
\* ship, the number and names of radars, bollards and hooks, each radar's
\* active flag and each hook's attached_line and fault flag are the same
\* before and after every update() call.
C3_UpdateFrame ==
    [][op'.name = "PortWorker.update" =>
        /\ port' # None /\ port # None
        /\ PortFrame(port') = PortFrame(port)
        /\ pools' = pools]_vars

\* an update has recomputed a radar's change, in a berth that has a faulted
\* hook and an active hook under tension
C3_Witness ==
    /\ op.name = "PortWorker.update" /\ SomeRadarUpdated
    /\ \E i \in DOMAIN Berths :
        /\ \E h \in BerthHooks(Berths[i]) : h.fault
        /\ \E h \in BerthHooks(Berths[i]) : h.active /\ h.tension = Some(2)

\* C4: for every port that construction can produce, and after any number of
\* update() calls, exporting port.data succeeds.
C4_ExportSucceeds ==
    (port # None /\ op.name = "PortWorker.data") => exported.raised = None

\* C11: a draw from an empty pool fails (random.choice raises IndexError, the
\* exhaustion error), and the error leaves the constructor that needed the
\* name unchanged: PortWorker() raises it and binds no port; nothing catches
\* it and carries on, so a port that was built has every berth and every
\* bollard it was to have.
C11_ExhaustionPropagates ==
    /\ op.name = "PortWorker" =>
        /\ op.raised \in {None, Some("IndexError")}
        /\ op.raised # None => (port = None /\ \E pool \in PoolNames : pools[pool] = <<>>)
        /\ op.raised = None => port # None
    /\ port # None =>
        /\ Len(port.berths) = port.berth_count
        /\ \A i \in DOMAIN port.berths :
            Len(port.berths[i].bollards)
                = (IF port.berths[i].bollard_count < 0 THEN 0
                   ELSE port.berths[i].bollard_count)

\* PortWorker() raised IndexError while a BollardWorker needed a name: the
\* bollard names are used up, a ship was already drawn for the berth
C11_Witness ==
    /\ op.name = "PortWorker" /\ op.raised = Some("IndexError")
    /\ port = None
    /\ pools["BOLLARD_NAMES"] = <<>>
    /\ pools["SHIP_IDS"] # <<>>

\* the hooks of the port whose tension is outside Field(ge=0, lt=99), as
\* <<berth, bollard, hook>> positions counted from 1
BadTensions ==
    {path \in (DOMAIN Berths) \X (1..40) \X (1..3) :
        /\ path[2] \in DOMAIN Berths[path[1]].bollards
        /\ Berths[path[1]].bollards[path[2]].hooks[path[3]].tension # None
        /\ Berths[path[1]].bollards[path[2]].hooks[path[3]].tension[1] >= 99}

\* the entity path of a hook's tension from the port root, 0-based
TensionPath(path) ==
    <<"berths", path[1] - 1, "bollards", path[2] - 1, "hooks", path[3] - 1, "tension">>

\* every berth's own counts are within the BerthData bounds
BerthCountsValid ==
    \A i \in DOMAIN Berths :
        /\ 0 < Berths[i].bollard_count /\ Berths[i].bollard_count < 40
        /\ 0 < Berths[i].hook_count /\ Berths[i].hook_count < 60

C16_BerthNames ==
    port # None =>
        /\ port.berth_count \in 1..8
        /\ Len(port.berths) = port.berth_count
        /\ \A k \in DOMAIN port.berths :
            /\ BerthWorker_name(port.berths[k])
                 = "Berth " \o <<"B", "C", "D", "E", "F", "G", "H", "I">>[k]
            /\ BerthWorker_name(port.berths[k]) # "Berth A"
            /\ \A m \in DOMAIN port.berths :
                BerthWorker_name(port.berths[m]) = BerthWorker_name(port.berths[k])
                    => m = k
            /\ Exported => exported.data[1].berths[k].name = BerthWorker_name(port.berths[k])
        /\ BerthWorker_name(port.berths[1]) = "Berth B"

\* a port of 8 berths, exported: the last berth is "Berth I"
C16_Witness ==
    /\ port # None /\ port.berth_count = 8
    /\ Exported
    /\ exported.data[1].berths[1].name = "Berth B"
    /\ exported.data[1].berths[8].name = "Berth I"

\* C17: for every BerthWorker, bollard_count is a positive integer, the berth
\* owns bollard_count BollardWorkers (and its export as many BollardData),
\* and the i-th bollard has bollard_number i.
C17_BollardCount ==
    \A b \in DOMAIN Berths :
        /\ Berths[b].bollard_count > 0
        /\ Len(Berths[b].bollards) = Berths[b].bollard_count
        /\ \A i \in DOMAIN Berths[b].bollards : Berths[b].bollards[i].bollard_number = i
        /\ Exported => Len(exported.data[1].berths[b].bollards) = Berths[b].bollard_count

\* C18: a BerthWorker built with code c owns 5 or 6 radars, named in order
\* "B" + c + "RD" + n for n = 1..count, with no gap and no repeat.
C18_RadarNames ==
    \A b \in DOMAIN Berths :
        /\ Len(Berths[b].radars) \in {5, 6}
        /\ \A n \in DOMAIN Berths[b].radars :
            Berths[b].radars[n].name
                = "B" \o Berths[b].berth_code \o "RD" \o <<"1", "2", "3", "4", "5", "6">>[n]
        /\ Cardinality({Berths[b].radars[n].name : n \in DOMAIN Berths[b].radars})
             = Len(Berths[b].radars)

\* the second berth, code "C", has 6 radars, the last one "BCRD6"
C18_Witness ==
    /\ 2 \in DOMAIN Berths
    /\ Berths[2].berth_code = "C"
    /\ Len(Berths[2].radars) = 6
    /\ Berths[2].radars[6].name = "BCRD6"
    /\ Berths[1].radars[1].name = "BBRD1"

\* the names of the radars of a berth, then of its hooks bollard by bollard
BerthUpdateOrder(berth) ==
    [n \in 1..Len(berth.radars) |-> berth.radars[n].name]
      \o [m \in 1..(3 * Len(berth.bollards)) |->
            berth.bollards[((m - 1) \div 3) + 1].hooks[((m - 1) % 3) + 1].name]

RECURSIVE PortUpdateOrder(_)
PortUpdateOrder(berths) ==
    IF berths = <<>> THEN <<>>
    ELSE BerthUpdateOrder(Head(berths)) \o PortUpdateOrder(Tail(berths))

\* C19: one PortWorker.update() call updates every radar and every hook of
\* the port exactly once, berth by berth in berth order, and within a berth
\* all radars before any bollard and hook.
C19_UpdateOrder ==
    op.name = "PortWorker.update" => op.ret = PortUpdateOrder(port.berths)

\* an update of a port of two berths, each with radars and two bollards:
\* 6 radars and 6 hooks of berth B, then those of berth C
C19_Witness ==
    /\ op.name = "PortWorker.update"
    /\ Len(Berths) = 2
    /\ Len(Berths[1].radars) = 6 /\ Len(Berths[1].bollards) = 2
    /\ Len(Berths[2].bollards) = 2
    /\ Len(op.ret) = 24
    /\ op.ret[6] = "BBRD6" /\ op.ret[7] = "Hook 1" /\ op.ret[12] = "Hook 6"
    /\ op.ret[13] = "BCRD1" /\ op.ret[24] = "Hook 6"

-----------------------------------------------------------------------------
(* The aggregating receiver: POST requests to httpreceiver.MooringHandler.  *)
(* The bodies are hand-made ones, or the exports of a generator that is     *)
(* started while the monitor is still empty.                                *)

\* POST requests that are followed
MaxPosts == 3

\* the time of a request: requests that fold records in are told apart
Clock == IF received = <<>> THEN 0 ELSE received[Len(received)].timestamp

TestTensions == {None, Some(4), Some(5), Some(8), Some(9), Some(23)}

JsonHook(name, tension, faulted) ==
    [name |-> Some(name), tension |-> tension, faulted |-> Some(faulted),
     attachedLine |-> IF tension = None THEN None ELSE Some("HEAD")]

JsonObject(value) == [kind |-> "object", value |-> value]

\* one berth with one bollard of one hook
OneHook(tension, faulted) ==
    JsonObject([name |-> "Port X",
                berths |-> << [name |-> "Berth A",
                               bollards |-> << [name |-> "BOL001",
                                                hooks |-> <<JsonHook("Hook 1", tension, faulted)>>] >>] >>])

\* two berths, the first with two bollards, the first of them with two hooks
FourHooks ==
    JsonObject([name |-> "Port X",
                berths |-> << [name |-> "Berth A",
                               bollards |-> << [name |-> "BOL001",
                                                hooks |-> <<JsonHook("Hook 1", Some(9), FALSE),
                                                            JsonHook("Hook 2", Some(5), FALSE)>>],
                                               [name |-> "BOL002",
                                                hooks |-> <<JsonHook("Hook 4", Some(4), FALSE)>>] >>],
                              [name |-> "Berth B",
                               bollards |-> << [name |-> "BOL003",
                                                hooks |-> <<JsonHook("Hook 1", Some(8), TRUE)>>] >>] >>])

\* objects with members missing
SparseObjects ==
    {JsonObject(<<>>),
     JsonObject([name |-> "Port X", berths |-> <<>>]),
     JsonObject([berths |-> << [name |-> "Berth A"] >>]),
     JsonObject([berths |-> << [bollards |-> << [name |-> "BOL001"], [hooks |-> <<>>] >>] >>]),
     JsonObject([berths |-> << [bollards |-> << [hooks |-> << [tension |-> Some(8)],
                                                               [name |-> Some("Hook 2")] >>] >>] >>])}

TestBodies ==
    {OneHook(t, FALSE) : t \in TestTensions} \cup {OneHook(Some(8), TRUE), FourHooks}
        \cup SparseObjects
        \cup {[kind |-> "array", value |-> <<>>], [kind |-> "text"], [kind |-> "bytes"]}

\* the ports of the generator: their exports are valid unless a tension is not
ReceiverEnvs ==
    {Env(g, <<c>>, n, k, pools, handed) :
        g \in {<<4>>, <<4, -3>>}, c \in 1..MaxPick, n \in 1..MaxBerths,
        k \in {<<1>>, <<1, 2>>, <<3, 1>>}}

ReceiverConstruct ==
    /\ port = None /\ monitor = <<>> /\ received = <<>> /\ reply = None
    /\ \E env \in ReceiverEnvs : Constructed(PortWorker_init(env))

\* op.rnd holds the body of the request, op.ret the records parsed from it
Posted(r, body) ==
    /\ monitor' = r.hooks
    /\ received' = received \o r.records
    /\ reply' = r.reply
    /\ op' = Op("do_POST", <<body>>, r.records, r.reply.raised)
    /\ UNCHANGED <<portVars, poolVars, radarVars, loopVars, lineVars, hookVars>>

\* a POST of another client
Post ==
    /\ port = None /\ Clock < MaxPosts
    /\ \E body \in TestBodies : Posted(do_POST(monitor, body, Clock + 1), body)

\* a POST of http_worker.run: the dump of port.data
PostExport ==
    /\ port # None /\ Clock < MaxPosts
    /\ PortWorker_data(port).raised = None
    /\ Posted(do_POST(monitor, JsonObject(model_dump(PortWorker_data(port).data[1])), Clock + 1),
              JsonObject(model_dump(PortWorker_data(port).data[1])))

NextReceiver == ReceiverConstruct \/ Update \/ PostExport \/ Post
SpecReceiver == Init /\ [][NextReceiver]_vars

-----------------------------------------------------------------------------
(* Properties of the receiver (SpecReceiver) *)

\* the last request carried a JSON object
PostedObject == op.name = "do_POST" /\ op.rnd[1].kind = "object"
Payload == op.rnd[1].value

PayloadBerths == IF "berths" \in DOMAIN Payload THEN Payload.berths ELSE <<>>
PayloadBollards(b) ==
    IF "bollards" \in DOMAIN PayloadBerths[b] THEN PayloadBerths[b].bollards ELSE <<>>
PayloadHooks(b, k) ==
    IF "hooks" \in DOMAIN PayloadBollards(b)[k] THEN PayloadBollards(b)[k].hooks ELSE <<>>

\* where the hooks of the payload are: berth, bollard, hook
HookPaths ==
    UNION {UNION {{<<b, k, h>> : h \in 1..Len(PayloadHooks(b, k))} :
                    k \in 1..Len(PayloadBollards(b))} :
             b \in 1..Len(PayloadBerths)}

Before(p, q) ==
    \/ p[1] < q[1]
    \/ p[1] = q[1] /\ p[2] < q[2]
    \/ p[1] = q[1] /\ p[2] = q[2] /\ p[3] < q[3]

\* the place of a hook in port order
Rank(p) == 1 + Cardinality({q \in HookPaths : Before(q, p)})

Member(d, key, default) == IF key \in DOMAIN d THEN d[key] ELSE default

\* C23: parse_mooring_payload returns exactly one record per hook of the
\* payload, in port order (berth, then bollard, then hook), each record
\* carrying the port name, the names of the berth and the bollard that
\* contain the hook, and the hook's name, tension, faulted flag and
\* attachedLine; a payload without berths, bollards or hooks gives no record.
C23_OneRecordPerHook ==
    PostedObject =>
        /\ Len(op.ret) = Cardinality(HookPaths)
        /\ \A p \in HookPaths :
            /\ op.ret[Rank(p)].port_name = Member(Payload, "name", "UNKNOWN_PORT")
            /\ op.ret[Rank(p)].berth_name = Member(PayloadBerths[p[1]], "name", "UNKNOWN_BERTH")
            /\ op.ret[Rank(p)].bollard_name
                 = Member(PayloadBollards(p[1])[p[2]], "name", "UNKNOWN_BOLLARD")
            /\ op.ret[Rank(p)].hook_name = Member(PayloadHooks(p[1], p[2])[p[3]], "name", None)
            /\ op.ret[Rank(p)].tension = Member(PayloadHooks(p[1], p[2])[p[3]], "tension", None)
            /\ op.ret[Rank(p)].faulted = Member(PayloadHooks(p[1], p[2])[p[3]], "faulted", None)
            /\ op.ret[Rank(p)].attached_line
                 = Member(PayloadHooks(p[1], p[2])[p[3]], "attachedLine", None)

\* the payload of two berths, three bollards and four hooks was parsed
C23_Witness ==
    /\ PostedObject /\ op.rnd[1] = FourHooks
    /\ Len(op.ret) = 4
    /\ op.ret[2].hook_name = Some("Hook 2") /\ op.ret[2].tension = Some(5)
    /\ op.ret[3].bollard_name = "BOL002" /\ op.ret[3].hook_name = Some("Hook 4")
    /\ op.ret[4].berth_name = "Berth B" /\ op.ret[4].faulted = Some(TRUE)

\* the records received for a key, in arrival order
RecordsOf(key) == SelectSeq(received, LAMBDA r : RecordKey(r) = key)

\* the hook is what the records rs, the last of them the latest, make of it
Folded(h, rs) ==
    /\ rs # <<>>
    /\ h.history = [n \in 1..Len(rs) |-> [timestamp |-> rs[n].timestamp,
                                          tension |-> rs[n].tension]]
    /\ h.current_tension = rs[Len(rs)].tension
    /\ h.previous_tension = IF Len(rs) = 1 THEN None ELSE rs[Len(rs) - 1].tension
    /\ h.faulted = rs[Len(rs)].faulted
    /\ h.attached_line = rs[Len(rs)].attached_line

\* C24: after any sequence of update_from_record calls, for every key
\* "<berth>.<bollard>.<hook>" seen, the entry's history holds one item per
\* record received for that key in arrival order, current_tension is the
\* tension of the last record, previous_tension that of the record before it
\* (null when only one was received), faulted and attached_line are those of
\* the last record; records for other keys do not change the entry.
C24_EntryFoldsItsRecords ==
    /\ HookKeys(monitor) = {RecordKey(received[i]) : i \in 1..Len(received)}
    /\ \A i, j \in 1..Len(monitor) : monitor[i].key = monitor[j].key => i = j
    /\ \A i \in 1..Len(monitor) : Folded(monitor[i].hook, RecordsOf(monitor[i].key))

\* three requests told of "Berth A.BOL001.Hook 1", the second of other hooks too
C24_Witness ==
    /\ Len(monitor) = 4
    /\ monitor[1].key = "Berth A.BOL001.Hook 1"
    /\ Len(monitor[1].hook.history) = 3
    /\ monitor[1].hook.history[1].tension = Some(4)
    /\ monitor[1].hook.previous_tension = Some(9)
    /\ monitor[1].hook.current_tension = None
    /\ monitor[1].hook.attached_line = None
    /\ Len(monitor[2].hook.history) = 1
    /\ monitor[4].key = "Berth B.BOL003.Hook 1" /\ monitor[4].hook.faulted = Some(TRUE)

\* thresholds in percent: the defaults, and one at which the double
\* (23 / 10) * 100 = 229.99999999999997 falls short
Thresholds == {50, 80, 90, 230}

Elements(seq) == {seq[i] : i \in 1..Len(seq)}

\* twice the double (current_tension / max_tension) * 100 is at least twice t
AtLeast(h, t) ==
    /\ h.current_tension # None
    /\ 20 * h.current_tension[1] + FloatRounding(h.current_tension[1]) >= 2 * t

RECURSIVE SumHookCount(_)
SumHookCount(berths) ==
    IF berths = <<>> THEN 0 ELSE Head(berths).hook_count + SumHookCount(Tail(berths))

\* the exports of the port have been posted Clock times
ExportsPosted == port # None /\ Clock >= 1

\* C28: when the exports of one constructed port are posted to a monitor that
\* starts empty, distinct hooks have distinct keys "<berth>.<bollard>.<hook>":
\* the monitor tracks as many hooks as the port has (the sum of hook_count
\* over its berths), which is also records_received of the response, and
\* after k exports the number is the same and every history has length k.
C28_OneEntryPerHook ==
    ExportsPosted =>
        /\ Len(monitor) = SumHookCount(port.berths)
        /\ Cardinality(HookKeys(monitor)) = SumHookCount(port.berths)
        /\ reply.status = Some(200)
        /\ reply.body = Some(SumHookCount(port.berths))
        /\ op.name = "do_POST" => Len(op.ret) = SumHookCount(port.berths)
        /\ Len(received) = Clock * SumHookCount(port.berths)
        /\ \A i \in 1..Len(monitor) : Len(monitor[i].hook.history) = Clock

\* three exports of a port of two berths, updated in between: twelve hooks,
\* one of them with a tension that changed
C28_Witness ==
    /\ ExportsPosted /\ Clock = 3
    /\ Len(port.berths) = 2
    /\ Len(monitor) = 12
    /\ reply.body = Some(12)
    /\ \E i \in 1..Len(monitor) :
          /\ Len(monitor[i].hook.history) = 3
          /\ monitor[i].hook.history[1].tension # monitor[i].hook.history[3].tension
          /\ monitor[i].hook.current_tension # None

\* the step is a POST with a body of the given kinds
PostOf(kinds) == op'.name = "do_POST" /\ op'.rnd[1].kind \in kinds

\* C29: a POST whose body is not valid JSON is answered with status 400 and
\* leaves the monitor as it was (no entry added, no history appended); a POST
\* with a valid payload is answered with 200 and records_received equal to
\* the number of hook records folded in.
C29_InvalidJsonAnswered400 ==
    [][/\ PostOf({"text", "bytes"}) =>
            /\ reply'.status = Some(400)
            /\ monitor' = monitor /\ received' = received
       /\ PostOf({"object"}) =>
            /\ reply'.status = Some(200)
            /\ reply'.body = Some(Len(op'.ret))
            /\ received' = received \o op'.ret]_vars

\* C30: both alert labels of the POST handler are reachable: a hook at 50 %
\* or more of max tension but below the critical threshold is reported as
\* ATTENTION, and one at the critical threshold or above as CRITICAL.
C30_BothLabels ==
    (op.name = "do_POST" /\ reply.status = Some(200)) =>
        \A e \in Elements(monitor) :
            /\ (Hook_needs_attention(e.hook, NEEDS_ATTENTION_DEFAULT)
                    /\ ~Hook_is_critical(e.hook, IS_CRITICAL_DEFAULT))
                => <<"ATTENTION", e.key>> \in Elements(reply.printed)
            /\ Hook_is_critical(e.hook, IS_CRITICAL_DEFAULT)
                => <<"CRITICAL", e.key>> \in Elements(reply.printed)

-----------------------------------------------------------------------------
(* Properties of the transport loops (SpecLoop) *)

Count(seq, x) == Cardinality({i \in 1..Len(seq) : seq[i] = x})

\* where the counters of run stand at each position of the loop
C20_Counters ==
    loop # None =>
        /\ Len(loop.results) = loop.loops
        /\ loop.payloads = 1 + Count(loop.results, "ok")
        /\ Count(loop.log, FailureMessage(loop.kind)) = Count(loop.results, "OSError")
        /\ Count(loop.log, "Unknown Error")
             = Count(loop.results, "ValueError") + Count(loop.results, "ValidationError")
        /\ loop.pc = "top" => loop.updates = loop.loops /\ loop.sleeps = loop.loops
        /\ loop.pc = "finally" => loop.updates = loop.loops - 1 /\ loop.sleeps = loop.loops - 1
        /\ loop.pc = "sleep" => loop.updates = loop.loops /\ loop.sleeps = loop.loops - 1
        /\ loop.pc = "raised" => loop.loops = 0 \/ Count(loop.log, "Port update failed") = 1
        /\ loop.pc = "done" => loop.log # <<>> /\ loop.log[Len(loop.log)] = Interrupted

\* the steps of one iteration, unless Ctrl+C arrives outside the try body or
\* port.update() itself raises
C20_Step ==
    (loop # None /\ loop' # loop /\ op'.name # "run.interrupt" /\ op'.raised = None) =>
        /\ loop.pc = "top" => loop'.pc = "finally" /\ loop'.raised = None
        /\ loop.pc = "finally" =>
              loop'.pc = "sleep" /\ loop'.updates = loop.updates + 1 /\ loop'.raised = None
        /\ loop.pc = "sleep" =>
              /\ loop'.sleeps = loop.sleeps + 1 /\ loop'.raised = None
              /\ loop'.pc = IF loop.results[loop.loops] = "KeyboardInterrupt" THEN "done" ELSE "top"

\* C20: in every iteration of the file and HTTP transport loops port.update()
\* is called exactly once and then the loop sleeps, whether the export, write
\* or send of the iteration succeeded or failed; a failure is logged, never
\* raised, the loop goes on to the next iteration, and payloads advances only
\* on the iterations that succeeded.
C20_TransportLoop == []C20_Counters /\ [][C20_Step]_vars

\* an HTTP loop whose first send failed and whose second succeeded
C20_Witness ==
    /\ loop # None /\ loop.kind = "http" /\ loop.pc = "top"
    /\ loop.results = <<"OSError", "ok">>
    /\ loop.loops = 2 /\ loop.payloads = 2 /\ loop.updates = 2 /\ loop.sleeps = 2
    /\ loop.log = <<"HTTP send failed">>

\* the step in which port.update() raises
C21_Raising ==
    (loop # None /\ op'.name = "run.update" /\ op'.raised # None /\ loop' # loop) =>
        /\ loop.pc = "finally"
        /\ loop'.pc = "raised" /\ loop'.raised = op'.raised
        /\ loop'.log = loop.log \o <<"Port update failed", "exception">>
        /\ loop'.sleeps = loop.sleeps /\ loop'.loops = loop.loops
        /\ port' = port

\* once an exception has left run, nothing of run follows
C21_Ended == (loop # None /\ loop.pc = "raised") => (loop' = loop /\ port' = port)

\* where run stands after the update of iteration n raised
C21_NoSleep ==
    (loop # None /\ loop.pc = "raised" /\ loop.loops > 0) =>
        /\ loop.sleeps = loop.loops - 1
        /\ loop.updates = loop.loops
        /\ Len(loop.results) = loop.loops

C22_InterruptedSleep ==
    (loop # None /\ loop.pc = "sleep" /\ op'.name = "run.interrupt" /\ loop' # loop) =>
        /\ loop'.pc = "done" /\ loop'.raised = None
        /\ Len(loop'.results) = loop.loops
        /\ loop'.updates = loop.loops
        /\ loop'.loops = loop.loops

\* why run is over: Ctrl+C, a failing port.update(), or the port was never built
C22_Ending ==
    loop # None =>
        /\ loop.pc \in {"top", "finally", "sleep", "done", "raised"}
        /\ loop.pc = "done" =>
              /\ loop.raised = None
              /\ loop.log # <<>> /\ loop.log[Len(loop.log)] = Interrupted
              /\ Count(loop.log, Interrupted) = 1
        /\ (loop.pc = "raised" /\ loop.loops > 0) =>
              /\ loop.raised = Some("RuntimeError")
              /\ loop.log[Len(loop.log) - 1] = "Port update failed"
        /\ loop.pc \notin {"done", "raised"} => loop.raised = None /\ Count(loop.log, Interrupted) = 0

\* C22: when the user interrupt arrives during the sleep of the n-th
\* iteration, run() returns normally after exactly n export attempts and
\* exactly n port.update() calls; the loop never ends for any other reason
\* than an interrupt or a failing update().
C22_InterruptEndsRun == [][C22_InterruptedSleep]_vars /\ []C22_Ending

\* an HTTP loop interrupted in the sleep of its second iteration
C22_Witness ==
    /\ loop # None /\ loop.kind = "http" /\ loop.pc = "done"
    /\ op.name = "run.interrupt"
    /\ loop.loops = 2 /\ loop.updates = 2 /\ loop.sleeps = 1
    /\ Len(loop.results) = 2
    /\ loop.raised = None

-----------------------------------------------------------------------------
(* Properties of a hook (SpecHook) *)

\* the hook was built with this status
BuiltWith(hook_status) == hook # None /\ hook_args.hook_status = hook_status

\* C5: a hook constructed with hook_status = false exports tension = null and
\* attached_line = null, whatever attached_line was passed in, right after
\* construction and after every update() call.
C5_InactiveHookHasNoTensionNoLine ==
    BuiltWith(Some(FALSE)) =>
        /\ hook.tension = None
        /\ hook.attached_line = None
        /\ HookWorker_data(hook).raised = None
        /\ HookWorker_data(hook).data[1].tension = None
        /\ HookWorker_data(hook).data[1].attached_line = None
        /\ Exported =>
            /\ exported.data[1].tension = None
            /\ exported.data[1].attached_line = None

\* a hook built with status false and line "STERN", exported, then updated
C5_Witness ==
    /\ BuiltWith(Some(FALSE))
    /\ hook_args.attached_line = "STERN"
    /\ op.name = "HookWorker.update"
    /\ Exported

\* C6: a hook constructed with hook_status = null has faulted = true and a
\* null tension after construction and after any number of update() calls;
\* a fault flag that is set stays set.
C6_FaultedHookStaysFaulted ==
    /\ BuiltWith(None) =>
        /\ hook.fault
        /\ hook.tension = None
        /\ Exported => exported.data[1].faulted /\ exported.data[1].tension = None
    /\ hook # None => (hook.fault <=> hook_args.hook_status = None)

\* a hook built with status null, exported, then updated
C6_Witness ==
    /\ BuiltWith(None)
    /\ op.name = "HookWorker.update"
    /\ Exported
    /\ exported.data[1].faulted

\* the integer k = ceil(g / 2) of a sample g in halves, by its definition:
\* the least integer not below g / 2
IsCeilOfHalves(k, g) == 2 * (k - 1) < g /\ g <= 2 * k

\* C7: a hook constructed with hook_status = true has faulted = false,
\* attached_line equal to the value passed in, and, at the end of
\* construction and after every update() call, a tension that is a
\* non-negative integer: the absolute value of the ceiling of the sample drawn.
C7_ActiveHookTension ==
    BuiltWith(Some(TRUE)) =>
        /\ ~hook.fault
        /\ hook.active
        /\ hook.attached_line = Some(hook_args.attached_line)
        /\ hook.tension # None
        /\ hook.tension[1] \in Nat
        /\ op.name \in {"HookWorker", "HookWorker.update"} =>
            /\ Len(op.rnd) = 1
            /\ \E k \in -25..25 :
                /\ IsCeilOfHalves(k, op.rnd[1])
                /\ hook.tension[1] = (IF k < 0 THEN -k ELSE k)

\* an active hook whose update drew -1.5: its tension is 1
C7_Witness ==
    /\ BuiltWith(Some(TRUE))
    /\ op.name = "HookWorker.update"
    /\ op.rnd = <<-3>>
    /\ hook.tension = Some(1)

\* C8 as stated: a faulted hook retains its active status and its
\* attached_line, the exported attached_line being the line of its bollard.
C8_FaultedHookKeepsLine ==
    (hook # None /\ hook.fault) =>
        /\ hook.active
        /\ hook.attached_line = Some(hook_args.attached_line)
        /\ Exported => exported.data[1].attached_line = Some(hook_args.attached_line)

\* C8 amended: a faulted hook is inactive and has no attached_line and no
\* tension, in the worker and in every export, after construction and after
\* any number of update() calls.
C8_FaultedHookHasNoLine ==
    (hook # None /\ hook.fault) =>
        /\ ~hook.active
        /\ hook.attached_line = None
        /\ hook.tension = None
        /\ Exported =>
            /\ exported.data[1].faulted
            /\ exported.data[1].attached_line = None
            /\ exported.data[1].tension = None

\* a faulted hook built for line "HEAD", exported with no line
C8_Witness ==
    /\ hook # None /\ hook.fault
    /\ hook_args.attached_line = "HEAD"
    /\ op.name = "HookWorker.data"
    /\ Exported
    /\ exported.data[1].attached_line = None

-----------------------------------------------------------------------------
(* Properties of a radar (SpecRadar) *)

\* C14: after construction and any number of update() calls, a radar
\* constructed active has non-null distance and change and exports
\* distance_status ACTIVE; a radar constructed inactive has both null and
\* exports INACTIVE; the active flag is the one it was constructed with.
C14_RadarActivity ==
    radar # None =>
        /\ radar.active = radar_args.active
        /\ RadarWorker_data(radar).raised = None
        /\ radar_args.active =>
            /\ radar.distance # None /\ radar.change # None
            /\ RadarWorker_data(radar).data[1].distance_status = "ACTIVE"
            /\ RadarWorker_data(radar).data[1].ship_distance # None
            /\ RadarWorker_data(radar).data[1].distance_change # None
        /\ ~radar_args.active =>
            /\ radar.distance = None /\ radar.change = None
            /\ RadarWorker_data(radar).data[1].distance_status = "INACTIVE"
            /\ RadarWorker_data(radar).data[1].ship_distance = None
            /\ RadarWorker_data(radar).data[1].distance_change = None
        /\ Exported =>
            exported.data[1].distance_status
                = (IF radar_args.active THEN "ACTIVE" ELSE "INACTIVE")

\* an inactive radar, exported and then updated
C14_Witness ==
    /\ radar # None /\ ~radar_args.active
    /\ op.name = "RadarWorker.update"
    /\ Exported /\ exported.data[1].distance_status = "INACTIVE"

\* C15: update() on an active radar sets distance to the absolute value of
\* the new sample and change to abs(previous distance - new distance), which
\* is never negative, and returns (distance, change); on an inactive radar it
\* changes nothing and returns (None, None).
C15_RadarUpdate ==
    [][op'.name = "RadarWorker.update" =>
        IF radar.active
        THEN /\ Len(op'.rnd) = 1
             /\ radar'.distance
                  = Some(IF op'.rnd[1] < 0 THEN -op'.rnd[1] ELSE op'.rnd[1])
             /\ radar'.change[1] >= 0
             /\ radar'.change[1] \in {radar.distance[1] - radar'.distance[1],
                                      radar'.distance[1] - radar.distance[1]}
             /\ op'.ret = <<radar'.distance, radar'.change>>
             /\ radar'.name = radar.name /\ radar'.active
        ELSE /\ radar' = radar
             /\ op'.rnd = <<>>
             /\ op'.ret = <<None, None>>]_vars

\* an active radar at distance 19.5 drew -1.5: distance 1.5, change 18
C15_Witness ==
    /\ op.name = "RadarWorker.update"
    /\ op.rnd = <<-3>>
    /\ radar.active
    /\ radar.distance = Some(3) /\ radar.change = Some(36)
    /\ op.ret = <<Some(3), Some(36)>>

-----------------------------------------------------------------------------
(* Properties of line_name_generator (SpecLine) *)

\* C9: the bollard at 1-based position p of N gets the line decided by
\* r = p / N: r < 0.25 HEAD, else r > 0.83 STERN, else 0.4 < r < 0.65 BREAST,
\* else SPRING; r = 0.25, 0.4, 0.65 and 0.83 all give SPRING; positions 1, 3,
\* 5, 9 of 10 give HEAD, SPRING, BREAST, STERN.  The comparisons are written
\* over the integers: r < 1/4 is 4p < N, r > 83/100 is 100p > 83N,
\* 2/5 < r < 13/20 is 2N < 5p and 20p < 13N.
C9_LineByPosition ==
    /\ Len(response) = Len(bollard_list)
    /\ \A p \in 1..Len(bollard_list) :
        /\ bollard_list[p] = p
        /\ response[p] \in {"HEAD", "STERN", "BREAST", "SPRING"}
        /\ response[p] = "HEAD" <=> 4 * p < Len(bollard_list)
        /\ response[p] = "STERN" <=> 100 * p > 83 * Len(bollard_list)
        /\ response[p] = "BREAST" <=>
            (2 * Len(bollard_list) < 5 * p /\ 20 * p < 13 * Len(bollard_list))
        /\ (4 * p = Len(bollard_list) \/ 5 * p = 2 * Len(bollard_list)
              \/ 20 * p = 13 * Len(bollard_list) \/ 100 * p = 83 * Len(bollard_list))
            => response[p] = "SPRING"
    /\ Len(bollard_list) = 10 =>
        /\ response[1] = "HEAD" /\ response[3] = "SPRING"
        /\ response[5] = "BREAST" /\ response[9] = "STERN"

\* 100 bollards: positions 25, 40, 65 and 83 sit on the four boundaries
C9_Witness ==
    /\ Len(response) = 100
    /\ response[24] = "HEAD" /\ response[25] = "SPRING"
    /\ response[40] = "SPRING" /\ response[41] = "BREAST"
    /\ response[64] = "BREAST" /\ response[65] = "SPRING"
    /\ response[83] = "SPRING" /\ response[84] = "STERN"

\* C26: for every N >= 1 the lines of positions 1..N read as a run of HEAD,
\* then SPRING, then BREAST, then SPRING, then STERN, any of them possibly
\* empty: HEAD is never preceded and STERN never followed by another kind,
\* the BREAST lines are adjacent with only SPRING between HEAD and STERN
\* around them; the last bollard is STERN, and the first is HEAD only when
\* N >= 5.
C26_LineRuns ==
    Len(response) >= 1 =>
        /\ \A i \in 1..Len(response), j \in 1..Len(response) :
            i < j =>
                /\ response[j] = "HEAD" => response[i] = "HEAD"
                /\ response[i] = "STERN" => response[j] = "STERN"
                /\ (response[i] = "BREAST" /\ response[i + 1] # "BREAST")
                      => response[j] # "BREAST"
        /\ \A i \in 1..Len(response) : response[i] \in {"HEAD", "SPRING", "BREAST", "STERN"}
        /\ response[Len(response)] = "STERN"
        /\ response[1] = "HEAD" => Len(response) >= 5

\* five bollards show the five runs, one line each
C26_Witness ==
    /\ bollard_list = <<1, 2, 3, 4, 5>>
    /\ response = <<"HEAD", "SPRING", "BREAST", "SPRING", "STERN">>

-----------------------------------------------------------------------------
(* Properties of the selection pools (SpecPool) *)

\* the elements of the pool's initial list that were not handed out, in order
NotHanded(pool) == SelectSeq(InitPools[pool], LAMBDA x : x \notin DOMAIN handed[pool])

\* C10: each draw returns an element that was in the pool and removes exactly
\* that element, leaving the others in order; no port name, bollard name,
\* vessel id, superlative or base name is handed out twice.
C10_SingleUse ==
    \A pool \in PoolNames :
        /\ \A x \in DOMAIN handed[pool] :
            /\ handed[pool][x] = 1
            /\ \E i \in DOMAIN InitPools[pool] : InitPools[pool][i] = x
            /\ \A i \in DOMAIN pools[pool] : pools[pool][i] # x
        /\ pools[pool] = NotHanded(pool)

\* the middle superlative was drawn and the two others are left in order;
\* every bollard name was handed out and the next draw raised IndexError
C10_Witness ==
    /\ pools["NAUTICAL_SUPERLATIVES"] = <<"Majestic", "Resolute">>
    /\ DOMAIN handed["NAUTICAL_SUPERLATIVES"] = {"Sovereign"}
    /\ pools["BOLLARD_NAMES"] = <<>>
    /\ op.name = "random_bollard_name"
    /\ op.raised = Some("IndexError")

\* the call that made the step failed for want of a name
FailedDraw(name) == op'.name = name /\ op'.raised # None

Shorter(pool) == Len(pools'[pool]) = Len(pools[pool]) - 1
OnlyChanged(changed) == \A pool \in PoolNames \ changed : pools'[pool] = pools[pool]

\* C27 as stated: when generate_ship, or the construction of a port with its
\* berths, fails because a pool it draws from is empty, no pool has been
\* modified.
C27_FailedGenerationLeavesPools ==
    [][(FailedDraw("generate_ship") \/ FailedDraw("random_ship_name")
            \/ FailedDraw("PortWorker")) => pools' = pools]_vars

\* what a failed generation does to the pools
C27_FailedStep ==
    /\ (FailedDraw("generate_ship") \/ FailedDraw("random_ship_name")
            \/ FailedDraw("PortWorker")) =>
        /\ op'.raised = Some("IndexError")
        /\ \E pool \in PoolNames : pools'[pool] = <<>>
        /\ \A pool \in PoolNames :
            /\ Len(pools'[pool]) <= Len(pools[pool])
            /\ \A i \in DOMAIN pools'[pool] : \E j \in DOMAIN pools[pool] :
                    pools'[pool][i] = pools[pool][j]
        /\ op'.ret = <<Held(pools) - Held(pools')>>
    /\ (FailedDraw("generate_ship") \/ FailedDraw("random_ship_name")) =>
        IF pools["NAUTICAL_SUPERLATIVES"] = <<>> THEN pools' = pools
        ELSE IF pools["NAUTICAL_BASE_NAMES"] = <<>>
             THEN Shorter("NAUTICAL_SUPERLATIVES") /\ OnlyChanged({"NAUTICAL_SUPERLATIVES"})
        ELSE /\ op'.name = "generate_ship" /\ pools["SHIP_IDS"] = <<>>
             /\ Shorter("NAUTICAL_SUPERLATIVES") /\ Shorter("NAUTICAL_BASE_NAMES")
             /\ OnlyChanged({"NAUTICAL_SUPERLATIVES", "NAUTICAL_BASE_NAMES"})
    /\ FailedDraw("PortWorker") =>
        /\ port' = None
        /\ IF pools["WA_PORT_NAMES"] = <<>> THEN pools' = pools
           ELSE Shorter("WA_PORT_NAMES")

\* C27, amended: a failed generation keeps what it drew before the draw that
\* failed.  generate_ship failing on the base names has consumed a
\* superlative, failing on the vessel ids a superlative and a base name; a
\* failed port construction has consumed its port name and whatever the
\* berths built so far drew.  Only a failure of the first draw leaves the
\* pools as they were.
C27_FailedGenerationKeepsDraws == [][C27_FailedStep]_vars

\* generate_ship found no base name and took the last superlative with it
C27_Witness ==
    /\ op.name = "generate_ship" /\ op.raised = Some("IndexError")
    /\ op.ret = <<1>>
    /\ pools["NAUTICAL_SUPERLATIVES"] = <<>>
    /\ pools["NAUTICAL_BASE_NAMES"] = <<>>
    /\ Cardinality(DOMAIN handed["NAUTICAL_SUPERLATIVES"]) = PoolSize + 1

=============================================================================
